---- MODULE Spec2Model ----
(***************************************************************************)
(* Data preparation and aging classification of the factoring analysis     *)
(* scripts: monetary normalisation, type partition, paid/outstanding       *)
(* split, aging delay and aging bucket.                                    *)
(***************************************************************************)
EXTENDS Integers, Sequences, FiniteSets, TLC

VARIABLES
    days,           \* classifier input: an aging delay in days
    invoice_type,   \* classifier input: "paid" or "outstanding"
    classifier,     \* which classifier has run: "none", "cut", "create_aging_bucket"
    bucket,         \* classifier output: the label assigned to `days`
    raw,            \* normalizer input: one cell of a monetary column
    normalizer,     \* which normalizer has run
    value,          \* normalizer output
    df,             \* the rows pd.read_csv returned
    clock,          \* datetime.now(), as a day ordinal
    script,         \* the script this run executes
    corrected,      \* the CorrectedFactoringAnalyzer instance
    summary,        \* what the aging analyses of `corrected` returned
    analyzer,       \* the FactoringAnalyzer instance
    final,          \* the populations of final_export()
    exported,       \* the result of export_aging_buckets()
    history,        \* the outputs of the successive runs or calls
    validation,     \* what quick_test() returned
    given,          \* the encoding argument of the loader
    csv,            \* what pd.read_csv does with the file under each encoding
    attempts,       \* the read attempts made so far, in order
    loader,         \* the position of the loader and the data it holds
    input,          \* the input file of a run: readability, columns, populations
    run,            \* a run of an entry point: position, output, diagnostics
    dates,          \* a date cell, the conversion applied to it, the parsed value
    matrix,         \* classified invoices and the customer aging matrix built from them
    risk,           \* a risk_percentage and the level each report gives it
    deposits,       \* deposit rows and their monthly aggregation
    aging_table     \* an aging table and what sort_aging_buckets returned for it

classifierVars == <<days, invoice_type, classifier, bucket>>
moneyVars == <<raw, normalizer, value>>
pipelineVars == <<df, clock, script, corrected, summary, analyzer, final, exported, history, validation>>
loaderVars == <<given, csv, attempts, loader>>
fatalVars == <<input, run>>
functionVars == <<dates, matrix, risk, deposits, aging_table>>

vars == <<days, invoice_type, classifier, bucket, raw, normalizer, value,
          df, clock, script, corrected, summary, analyzer, final, exported, history, validation,
          given, csv, attempts, loader, input, run,
          dates, matrix, risk, deposits, aging_table>>

(***************************************************************************)
(* Bounds                                                                  *)
(***************************************************************************)
\* aging delays tried on the classifier: -MaxEarly..MaxDelay
MaxEarly == 3
MaxDelay == 93
\* longest string tried on the monetary normalizers
MaxStrLen == 4
\* most rows in a loaded file
MaxRows == 2
\* most rows in a file that is processed twice
MaxRerunRows == 1
\* most days the clock advances between two runs
MaxTicks == 2
\* most calls of the aggregation methods on one analyzer
MaxCalls == 3
\* most columns missing from an input file
MaxMissing == 1
\* date cells NN/NN/YYYY tried on the date conversions: first number up to
\* MaxMonth, second up to MaxDayOfMonth
MaxMonth == 13
MaxDayOfMonth == 32
\* most invoices of a population given to the customer aging matrix
MaxInvoices == 3
\* risk percentages given to the reports: 0, 0.5, 1, ... MaxRiskHalves / 2
MaxRiskHalves == 50
\* most rows of a deposits file
MaxDeposits == 3
\* most rows of a table given to sort_aging_buckets
MaxTableRows == 3

(***************************************************************************)
(* Missing values                                                          *)
(***************************************************************************)
\* pd.NaT: the result of pd.to_datetime(..., errors='coerce') on a bad date
NaT == -1
\* float NaN in an integer-valued column (a days difference with a NaT side)
NaN == -999999

(***************************************************************************)
(* Aging buckets                                                           *)
(***************************************************************************)
PaidLabels == <<"On-time", "1-30 Days", "31-60 Days", "61-90 Days", "90+ Days">>
OutstandingLabels == <<"Current", "1-30 Days", "31-60 Days", "61-90 Days", "90+ Days">>

\* the bins closed on the left, as pd.cut(..., right=False) would make them
cut_left_closed(x, labels) ==
    IF x = NaN THEN "NaN"
    ELSE IF x < 0 THEN labels[1]
    ELSE IF x < 30 THEN labels[2]
    ELSE IF x < 60 THEN labels[3]
    ELSE IF x < 90 THEN labels[4]
    ELSE labels[5]

\* pd.cut(x, bins=[-inf, 0, 30, 60, 90, inf], labels=labels): right-closed
\* intervals (-inf,0], (0,30], (30,60], (60,90], (90,inf); NaN stays NaN
cut(x, labels) ==
    IF x = NaN THEN "NaN"
    ELSE IF x <= 0 THEN labels[1]
    ELSE IF x <= 30 THEN labels[2]
    ELSE IF x <= 60 THEN labels[3]
    ELSE IF x <= 90 THEN labels[4]
    ELSE labels[5]

\* create_aging_bucket(days, invoice_type) nested in calculate_aging_correctly
create_aging_bucket(d, inv_type) ==
    IF d <= 0 THEN (IF inv_type = "paid" THEN "On-time" ELSE "Current")
    ELSE IF 1 <= d /\ d <= 30 THEN "1-30 Days"
    ELSE IF 31 <= d /\ d <= 60 THEN "31-60 Days"
    ELSE IF 61 <= d /\ d <= 90 THEN "61-90 Days"
    ELSE "90+ Days"

(***************************************************************************)
(* Character strings: a string is a sequence of one-character strings      *)
(***************************************************************************)
Digits == {"0", "1", "2", "3", "4", "5", "6", "7", "8", "9"}
DigitSeq == <<"0", "1", "2", "3", "4", "5", "6", "7", "8", "9">>
DigitVal(c) == (CHOOSE i \in 1..10 : DigitSeq[i] = c) - 1

\* str.lower() on the letters that spell nan / inf / infinity / the exponent
Lower(c) ==
    CASE c = "N" -> "n" [] c = "A" -> "a" [] c = "I" -> "i"
      [] c = "F" -> "f" [] c = "E" -> "e" [] OTHER -> c
LowerStr(s) == [i \in 1..Len(s) |-> Lower(s[i])]

\* Series.str.replace(old, new, regex=False) for a one-character `old`
RECURSIVE str_replace(_, _, _)
str_replace(s, old, new) ==
    IF s = <<>> THEN <<>>
    ELSE (IF Head(s) = old THEN new ELSE <<Head(s)>>) \o str_replace(Tail(s), old, new)

\* Series.replace(old, new): replaces a value that EQUALS old, not a substring
value_replace(s, old, new) == IF s = old THEN new ELSE s

RECURSIVE IntDigits(_)
IntDigits(n) ==
    IF n < 10 THEN <<DigitSeq[n + 1]>> ELSE IntDigits(n \div 10) \o <<DigitSeq[(n % 10) + 1]>>

\* Series.astype(str): a missing value becomes 'nan', an integer its decimal
\* spelling, a string stays itself
astype_str(x) ==
    CASE x.kind = "missing" -> <<"n", "a", "n">>
      [] x.kind = "int" -> (IF x.n < 0 THEN <<"-">> \o IntDigits(-x.n) ELSE IntDigits(x.n))
      [] OTHER -> x.s

(***************************************************************************)
(* Floating point values: a finite value is num * 10^exp in canonical form *)
(***************************************************************************)
FloatNaN == [kind |-> "nan", num |-> 0, exp |-> 0]
FloatInf(sign) == [kind |-> "inf", num |-> sign, exp |-> 0]
Zero == [kind |-> "fin", num |-> 0, exp |-> 0]

RECURSIVE Canon(_, _)
Canon(num, exp) ==
    IF num = 0 THEN Zero
    ELSE IF num % 10 = 0 THEN Canon(num \div 10, exp + 1)
    ELSE [kind |-> "fin", num |-> num, exp |-> exp]

\* largest decimal exponent of a finite double (DBL_MAX is about 1.8e308)
MaxDecimalExponent == 308

RECURSIVE NumDigits(_)
NumDigits(n) == IF n < 10 THEN 1 ELSE 1 + NumDigits(n \div 10)

\* a double: the value num * 10^exp, infinite when it overflows the format
Double(sign, num, exp) ==
    IF num # 0 /\ NumDigits(num) + exp - 1 > MaxDecimalExponent THEN FloatInf(sign)
    ELSE Canon(sign * num, exp)

(***************************************************************************)
(* pd.to_numeric(..., errors='coerce') on one string                       *)
(***************************************************************************)
RECURSIVE SkipDigits(_, _)
SkipDigits(s, i) == IF i <= Len(s) /\ s[i] \in Digits THEN SkipDigits(s, i + 1) ELSE i

RECURSIVE SkipSpaces(_, _)
SkipSpaces(s, i) == IF i <= Len(s) /\ s[i] = " " THEN SkipSpaces(s, i + 1) ELSE i

\* the integer spelled by the digits s[i..j-1], after the digits of `acc`
RECURSIVE DigitsValue(_, _, _, _)
DigitsValue(s, i, j, acc) ==
    IF i >= j THEN acc ELSE DigitsValue(s, i + 1, j, acc * 10 + DigitVal(s[i]))

At(s, i) == IF i >= 1 /\ i <= Len(s) THEN s[i] ELSE "EOS"

\* xstrtod: [spaces] [sign] digits [. digits] [e [sign] digits] [spaces];
\* ok is FALSE when no digit was read or the string is not consumed whole
xstrtod(s) ==
    LET p0 == SkipSpaces(s, 1)
        neg == At(s, p0) = "-"
        p1 == IF At(s, p0) \in {"-", "+"} THEN p0 + 1 ELSE p0
        p2 == SkipDigits(s, p1)
        hasDot == At(s, p2) = "."
        p3 == IF hasDot THEN SkipDigits(s, p2 + 1) ELSE p2
        decs == IF hasDot THEN p3 - (p2 + 1) ELSE 0
        num_digits == (p2 - p1) + decs
        intval == DigitsValue(s, p1, p2, 0)
        number == IF hasDot THEN DigitsValue(s, p2 + 1, p3, intval) ELSE intval
        hasExp == Lower(At(s, p3)) = "e"
        eneg == At(s, p3 + 1) = "-"
        q1 == IF At(s, p3 + 1) \in {"-", "+"} THEN p3 + 2 ELSE p3 + 1
        q2 == SkipDigits(s, q1)
        n == DigitsValue(s, q1, q2, 0)
        expDigits == hasExp /\ q2 > q1
        p4 == IF expDigits THEN q2 ELSE p3
        exponent == (0 - decs) + (IF expDigits THEN (IF eneg THEN 0 - n ELSE n) ELSE 0)
        p5 == SkipSpaces(s, p4)
    IN  [ok |-> num_digits > 0 /\ p5 = Len(s) + 1,
         val |-> IF num_digits > 0 THEN Double(IF neg THEN -1 ELSE 1, number, exponent) ELSE Zero]

NanSpellings == {<<"n", "a", "n">>, <<"-", "n", "a", "n">>, <<"+", "n", "a", "n">>}
InfSpellings == {<<"i", "n", "f">>, <<"+", "i", "n", "f">>,
                 <<"i", "n", "f", "i", "n", "i", "t", "y">>,
                 <<"+", "i", "n", "f", "i", "n", "i", "t", "y">>}
NegInfSpellings == {<<"-", "i", "n", "f">>, <<"-", "i", "n", "f", "i", "n", "i", "t", "y">>}

\* floatify: xstrtod, then the nan / inf spellings in any letter case;
\* anything else is a parse error, which errors='coerce' turns into NaN
to_numeric(s) ==
    LET r == xstrtod(s)
        low == LowerStr(s)
    IN  IF s = <<>> THEN FloatNaN
        ELSE IF r.ok THEN r.val
        ELSE IF low \in NanSpellings THEN FloatNaN
        ELSE IF low \in InfSpellings THEN FloatInf(1)
        ELSE IF low \in NegInfSpellings THEN FloatInf(-1)
        ELSE FloatNaN

\* Series.fillna(0)
fillna0(v) == IF v.kind = "nan" THEN Zero ELSE v

(***************************************************************************)
(* The monetary normalizers                                                *)
(***************************************************************************)
\* the chain without the removal of the thousands commas
clean_monetary_keeps_commas(x) ==
    LET s0 == astype_str(x)
        s1 == str_replace(s0, "$", <<>>)
        s3 == str_replace(s1, " ", <<>>)
        s4 == str_replace(s3, "(", <<"-">>)
        s5 == str_replace(s4, ")", <<>>)
        s6 == value_replace(s5, <<"n", "a", "n">>, <<"0">>)
        s7 == value_replace(s6, <<>>, <<"0">>)
    IN  fillna0(to_numeric(s7))

\* FactoringAnalyzer.prepare_data step 1 (the same chain is in quick_test and
\* export_aging_buckets)
clean_monetary(x) ==
    LET s0 == astype_str(x)
        s1 == str_replace(s0, "$", <<>>)
        s2 == str_replace(s1, ",", <<>>)
        s3 == str_replace(s2, " ", <<>>)
        s4 == str_replace(s3, "(", <<"-">>)
        s5 == str_replace(s4, ")", <<>>)
        s6 == value_replace(s5, <<"n", "a", "n">>, <<"0">>)
        s7 == value_replace(s6, <<>>, <<"0">>)
    IN  fillna0(to_numeric(s7))

\* CorrectedFactoringAnalyzer.prepare_data step 1
clean_monetary_corrected(x) ==
    LET s0 == astype_str(x)
        s1 == str_replace(s0, "$", <<>>)
        s2 == str_replace(s1, ",", <<>>)
        s3 == str_replace(s2, "(", <<"-">>)
        s4 == str_replace(s3, ")", <<>>)
    IN  fillna0(to_numeric(s4))

(***************************************************************************)
(* The accepted monetary grammar and the value a string of it denotes      *)
(*   money  ::= ["$"] body | ["$"] "(" ["$"] body ")"                      *)
(*   body   ::= int ["." digit+]                                           *)
(*   int    ::= digit+ | digit{1,3} ("," digit digit digit)+               *)
(***************************************************************************)
AllDigits(s) == \A i \in 1..Len(s) : s[i] \in Digits

DropDollar(s) == IF s # <<>> /\ Head(s) = "$" THEN Tail(s) ELSE s

Parenthesized(s) == Len(s) >= 2 /\ s[1] = "(" /\ s[Len(s)] = ")"

\* the body of a money string: without '$' and without the parentheses
MoneyBody(s) ==
    LET t == DropDollar(s)
    IN  IF Parenthesized(t) THEN DropDollar(SubSeq(t, 2, Len(t) - 1)) ELSE t

MoneyNegative(s) == Parenthesized(DropDollar(s))

DotPos(s) == IF \E i \in 1..Len(s) : s[i] = "." THEN CHOOSE i \in 1..Len(s) : s[i] = "." /\ \A j \in 1..(i - 1) : s[j] # "."
             ELSE 0

IntPart(b) == IF DotPos(b) = 0 THEN b ELSE SubSeq(b, 1, DotPos(b) - 1)
FracPart(b) == IF DotPos(b) = 0 THEN <<>> ELSE SubSeq(b, DotPos(b) + 1, Len(b))

\* groups of three digits, each introduced by a comma
RECURSIVE CommaGroups(_)
CommaGroups(s) ==
    \/ s = <<>>
    \/ /\ Len(s) >= 4
       /\ s[1] = ","
       /\ AllDigits(SubSeq(s, 2, 4))
       /\ CommaGroups(SubSeq(s, 5, Len(s)))

IntPartOK(t) ==
    \/ t # <<>> /\ AllDigits(t)
    \/ \E k \in 1..3 :
          /\ Len(t) > k
          /\ AllDigits(SubSeq(t, 1, k))
          /\ CommaGroups(SubSeq(t, k + 1, Len(t)))

InGrammar(s) ==
    LET b == MoneyBody(s)
    IN  /\ IntPartOK(IntPart(b))
        /\ DotPos(b) # 0 => (FracPart(b) # <<>> /\ AllDigits(FracPart(b)))

\* the digits of a string, in order, with everything else left out
RECURSIVE OnlyDigits(_)
OnlyDigits(s) ==
    IF s = <<>> THEN <<>>
    ELSE (IF Head(s) \in Digits THEN <<Head(s)>> ELSE <<>>) \o OnlyDigits(Tail(s))

RECURSIVE Pow10(_)
Pow10(k) == IF k = 0 THEN 1 ELSE 10 * Pow10(k - 1)

RECURSIVE Numeral(_)
Numeral(ds) == IF ds = <<>> THEN 0 ELSE Numeral(SubSeq(ds, 1, Len(ds) - 1)) * 10 + DigitVal(ds[Len(ds)])

\* the value a grammar string denotes: ImpliedNumerator / ImpliedDenominator
ImpliedNumerator(s) ==
    LET b == MoneyBody(s)
        whole == Numeral(OnlyDigits(IntPart(b)))
        frac == Numeral(FracPart(b))
    IN  (IF MoneyNegative(s) THEN -1 ELSE 1) * (whole * Pow10(Len(FracPart(b))) + frac)
ImpliedDenominator(s) == Pow10(Len(FracPart(MoneyBody(s))))

\* v (a finite float) equals numerator / denominator
EqualsRatio(v, numerator, denominator) ==
    /\ v.kind = "fin"
    /\ IF v.exp >= 0 THEN v.num * Pow10(v.exp) * denominator = numerator
       ELSE v.num * denominator = numerator * Pow10(0 - v.exp)

(***************************************************************************)
(* Dates.  A raw date cell is [kind, m, d, y]: kind "mdy" is a string of   *)
(* the form MM/DD/YYYY with those numbers, "missing" an empty cell (NaN    *)
(* after read_csv), "text" any other string.  A parsed date (Timestamp at  *)
(* midnight) is its proleptic Gregorian day ordinal, or NaT.               *)
(***************************************************************************)
IsLeap(y) == (y % 4 = 0) /\ ((y % 100 # 0) \/ (y % 400 = 0))

DaysInMonth(m, y) ==
    IF m = 2 THEN (IF IsLeap(y) THEN 29 ELSE 28)
    ELSE IF m \in {4, 6, 9, 11} THEN 30 ELSE 31

RECURSIVE DaysBeforeMonth(_, _)
DaysBeforeMonth(m, y) == IF m <= 1 THEN 0 ELSE DaysBeforeMonth(m - 1, y) + DaysInMonth(m - 1, y)

DaysBeforeYear(y) == (y - 1) * 365 + ((y - 1) \div 4) - ((y - 1) \div 100) + ((y - 1) \div 400)

Ordinal(m, d, y) == DaysBeforeYear(y) + DaysBeforeMonth(m, y) + d

\* pd.to_datetime(col, format='%m/%d/%Y', errors='coerce') on one cell
to_datetime(x) ==
    IF /\ x.kind = "mdy"
       /\ x.m >= 1 /\ x.m <= 12
       /\ x.d >= 1 /\ x.d <= DaysInMonth(x.m, x.y)
    THEN Ordinal(x.m, x.d, x.y)
    ELSE NaT

\* the operands of the subtraction exchanged
days_between_reversed(a, b) == IF a = NaT \/ b = NaT THEN NaN ELSE b - a

\* (a - b).dt.days: NaN as soon as one side is NaT
days_between(a, b) == IF a = NaT \/ b = NaT THEN NaN ELSE a - b

\* Series.fillna(0) on a days column
fillna0_days(x) == IF x = NaN THEN 0 ELSE x

\* datetime(2025, 6, 23) / pd.Timestamp('2025-06-23')
dataset_date == Ordinal(6, 23, 2025)

Mdy(m, d, y) == [kind |-> "mdy", m |-> m, d |-> d, y |-> y]
MissingDate == [kind |-> "missing", m |-> 0, d |-> 0, y |-> 0]

Str(chars) == [kind |-> "str", s |-> chars, n |-> 0]
MissingValue == [kind |-> "missing", s |-> <<>>, n |-> 0]
IntValue(k) == [kind |-> "int", s |-> <<>>, n |-> k]

(***************************************************************************)
(* Arithmetic of the aggregations.  Sums and quotients are exact decimal   *)
(* or rational values; the binary rounding of a double is not modelled     *)
(***************************************************************************)
\* the integer v / 10^e of a finite float v whose exponent is at least e
IntAt(v, e) == v.num * Pow10(v.exp - e)

MinExp(a, b) == IF a.exp < b.exp THEN a.exp ELSE b.exp

\* a + b on floats
FloatAdd(a, b) ==
    IF a.kind = "nan" \/ b.kind = "nan" THEN FloatNaN
    ELSE IF a.kind = "inf" /\ b.kind = "inf" THEN (IF a.num = b.num THEN a ELSE FloatNaN)
    ELSE IF a.kind = "inf" THEN a
    ELSE IF b.kind = "inf" THEN b
    ELSE Canon(IntAt(a, MinExp(a, b)) + IntAt(b, MinExp(a, b)), MinExp(a, b))

\* Series.sum() of a float column given as a sequence of floats
RECURSIVE FloatSum(_)
FloatSum(col) == IF col = <<>> THEN Zero ELSE FloatAdd(Head(col), FloatSum(Tail(col)))

\* frame['Amount (USD)'], frame['Amt. Paid (USD)'], frame['Amt. Due (USD)']
AmountColumn(frame) == [i \in 1..Len(frame) |-> frame[i].Amount]
AmtPaidColumn(frame) == [i \in 1..Len(frame) |-> frame[i].AmtPaid]
AmtDueColumn(frame) == [i \in 1..Len(frame) |-> frame[i].AmtDue]

\* the integer nearest to n / d for d > 0, a tie going to the even one
\* (numpy's round)
RoundHalfEven(n, d) ==
    IF 2 * (n % d) < d THEN n \div d
    ELSE IF 2 * (n % d) > d THEN (n \div d) + 1
    ELSE IF (n \div d) % 2 = 0 THEN n \div d ELSE (n \div d) + 1

Sign(n) == IF n < 0 THEN -1 ELSE 1

\* (n / d * 100).round(2) for integers n and d: float division, so a zero
\* denominator gives nan or an infinity, not an exception
PercentOf(n, d) ==
    IF d = 0 THEN (IF n = 0 THEN FloatNaN ELSE FloatInf(Sign(n)))
    ELSE Canon(RoundHalfEven(Sign(d) * n * 10000, Sign(d) * d), -2)

\* (a / b * 100).round(2) for floats a and b
FloatPercentOf(a, b) ==
    IF a.kind = "nan" \/ b.kind = "nan" THEN FloatNaN
    ELSE IF a.kind = "inf" THEN (IF b.kind = "inf" THEN FloatNaN
                                 ELSE FloatInf(IF b.num < 0 THEN 0 - a.num ELSE a.num))
    ELSE IF b.kind = "inf" THEN Zero
    ELSE PercentOf(IntAt(a, MinExp(a, b)), IntAt(b, MinExp(a, b)))

RECURSIVE GCD(_, _)
GCD(a, b) == IF b = 0 THEN a ELSE GCD(b, a % b)

Abs(n) == IF n < 0 THEN 0 - n ELSE n

\* the unrounded quotient n / d of two integers, as a fraction in lowest
\* terms with a positive denominator; d = 0 gives nan or an infinity
Quotient(n, d) ==
    IF d = 0 THEN (IF n = 0 THEN [kind |-> "nan", num |-> 0, den |-> 1]
                   ELSE [kind |-> "inf", num |-> Sign(n), den |-> 1])
    ELSE [kind |-> "fin",
          num |-> (Sign(d) * n) \div GCD(Abs(n), Abs(d)),
          den |-> Abs(d) \div GCD(Abs(n), Abs(d))]

\* a / b * 100 for finite floats a and b, unrounded
FloatRate(a, b) ==
    IF a.kind = "fin" /\ b.kind = "inf" THEN [kind |-> "fin", num |-> 0, den |-> 1]
    ELSE IF a.kind # "fin" \/ b.kind # "fin" THEN [kind |-> "nan", num |-> 0, den |-> 1]
    ELSE Quotient(IntAt(a, MinExp(a, b)) * 100, IntAt(b, MinExp(a, b)))

\* the literal 0 of the `else 0` branches
ZeroRate == [kind |-> "fin", num |-> 0, den |-> 1]

(***************************************************************************)
(* Data frames: a frame is a sequence of rows; every row keeps the index   *)
(* label idx it was given when the file was read                           *)
(***************************************************************************)
\* float comparisons used as row filters
IsZero(v) == v.kind = "fin" /\ v.num = 0
IsPositive(v) == (v.kind = "fin" /\ v.num > 0) \/ (v.kind = "inf" /\ v.num > 0)

\* every row that is not of another known type taken for a row of type t
type_rows_by_exclusion(frame, t) ==
    SelectSeq(frame, LAMBDA r : \A u \in {"Invoice", "Credit Memo"} \ {t} : r.Type # u)

\* frame[frame['Type'] == t]
type_rows(frame, t) == SelectSeq(frame, LAMBDA r : r.Type = t)

\* an invoice with a missing date taken for an outstanding one
outstanding_rows_any_missing(invoice) == SelectSeq(invoice, LAMBDA r : r.LPD = NaT \/ r.Due = NaT)

\* an invoice counted as paid only when both of its dates are present
paid_rows_with_due(invoice) == SelectSeq(invoice, LAMBDA r : r.LPD # NaT /\ r.Due # NaT)

\* df_invoice[df_invoice['Last Payment Date'].notna()]
paid_rows(invoice) == SelectSeq(invoice, LAMBDA r : r.LPD # NaT)

\* df_invoice[df_invoice['Last Payment Date'].isna()]
outstanding_rows(invoice) == SelectSeq(invoice, LAMBDA r : r.LPD = NaT)

\* step 1 of CorrectedFactoringAnalyzer.prepare_data on every row
clean_rows_corrected(frame) ==
    [i \in 1..Len(frame) |->
        [frame[i] EXCEPT !.Amount = clean_monetary_corrected(@),
                         !.AmtPaid = clean_monetary_corrected(@),
                         !.AmtDue = clean_monetary_corrected(@)]]

\* step 1 of FactoringAnalyzer.prepare_data on every row
clean_rows(frame) ==
    [i \in 1..Len(frame) |->
        [frame[i] EXCEPT !.Amount = clean_monetary(@),
                         !.AmtPaid = clean_monetary(@),
                         !.AmtDue = clean_monetary(@)]]

\* the date columns converted with pd.to_datetime; on the cells modelled here
\* (MM/DD/YYYY with a month of at most 12, or no date at all) the calls
\* without a format give what format='%m/%d/%Y' gives
parse_dates(frame) ==
    [i \in 1..Len(frame) |-> [frame[i] EXCEPT !.Due = to_datetime(@), !.LPD = to_datetime(@)]]

AgedRow(r, delay, label) ==
    [idx |-> r.idx, Type |-> r.Type, Due |-> r.Due, LPD |-> r.LPD,
     Amount |-> r.Amount, AmtPaid |-> r.AmtPaid, AmtDue |-> r.AmtDue,
     Aging_Delay |-> delay, Aging_Bucket |-> label]

\* step 5 of CorrectedFactoringAnalyzer.prepare_data, paid invoices
age_paid(frame) ==
    [i \in 1..Len(frame) |->
        AgedRow(frame[i], days_between(frame[i].LPD, frame[i].Due),
                cut(days_between(frame[i].LPD, frame[i].Due), PaidLabels))]

\* step 5 of CorrectedFactoringAnalyzer.prepare_data, outstanding invoices
age_outstanding(frame) ==
    [i \in 1..Len(frame) |->
        AgedRow(frame[i], days_between(dataset_date, frame[i].Due),
                cut(days_between(dataset_date, frame[i].Due), OutstandingLabels))]

\* CorrectedFactoringAnalyzer.prepare_data, steps 4 and 5: the split of the
\* invoices and the aging of both populations
CorrectedSplit(cleaned, invoice, credit_memo) ==
    [prepared |-> TRUE,
     df |-> cleaned,
     df_invoice |-> invoice,
     df_credit_memo |-> credit_memo,
     df_full |-> cleaned,
     df_paid_invoices |-> age_paid(paid_rows(invoice)),
     df_outstanding_invoices |-> age_outstanding(outstanding_rows(invoice))]

\* CorrectedFactoringAnalyzer.prepare_data, steps 2 and 3: the split by Type
\* and the conversion of the dates of the invoices
CorrectedByType(cleaned) ==
    CorrectedSplit(cleaned, parse_dates(type_rows(cleaned, "Invoice")), type_rows(cleaned, "Credit Memo"))

\* CorrectedFactoringAnalyzer.prepare_data
CorrectedPrepare(loaded) == CorrectedByType(clean_rows_corrected(loaded))

\* DataFrame.groupby('Aging_Bucket')['Number'].count(): rows per label; a row
\* whose bucket is NaN belongs to no group
CountBy(frame, label) == Cardinality({i \in 1..Len(frame) : frame[i].Aging_Bucket = label})

\* the Invoice_Count column of outstanding_invoices_aging_analysis /
\* paid_invoices_aging_analysis, indexed by bucket position
Invoice_Count(frame, labels) == [k \in 1..5 |-> CountBy(frame, labels[k])]

\* the Percentage column: Invoice_Count / len(population) * 100, rounded to
\* two decimals
Percentage(frame, labels) ==
    [k \in 1..5 |-> PercentOf(CountBy(frame, labels[k]), Len(frame))]

\* CorrectedFactoringAnalyzer.outstanding_invoices_aging_analysis: None for
\* an empty population, else the summary table
outstanding_invoices_aging_analysis(self) ==
    IF Len(self.df_outstanding_invoices) = 0 THEN [status |-> "None"]
    ELSE [status |-> "table",
          Invoice_Count |-> Invoice_Count(self.df_outstanding_invoices, OutstandingLabels),
          Percentage |-> Percentage(self.df_outstanding_invoices, OutstandingLabels),
          population |-> Len(self.df_outstanding_invoices)]

\* the percentages taken over all the invoices
paid_invoices_aging_analysis_over_invoices(self) ==
    IF Len(self.df_paid_invoices) = 0 THEN [status |-> "None"]
    ELSE [status |-> "table",
          Invoice_Count |-> Invoice_Count(self.df_paid_invoices, PaidLabels),
          Percentage |-> [k \in 1..5 |-> PercentOf(CountBy(self.df_paid_invoices, PaidLabels[k]),
                                                  Len(self.df_invoice))],
          population |-> Len(self.df_paid_invoices)]

\* CorrectedFactoringAnalyzer.paid_invoices_aging_analysis
paid_invoices_aging_analysis(self) ==
    IF Len(self.df_paid_invoices) = 0 THEN [status |-> "None"]
    ELSE [status |-> "table",
          Invoice_Count |-> Invoice_Count(self.df_paid_invoices, PaidLabels),
          Percentage |-> Percentage(self.df_paid_invoices, PaidLabels),
          population |-> Len(self.df_paid_invoices)]

\* Series.mean() of the Aging_Delay column: the NaN entries are skipped, and
\* a column without a number has mean NaN
RECURSIVE SumDelays(_)
SumDelays(frame) ==
    IF frame = <<>> THEN 0
    ELSE (IF Head(frame).Aging_Delay = NaN THEN 0 ELSE Head(frame).Aging_Delay)
             + SumDelays(Tail(frame))

mean_delay(frame) ==
    Quotient(SumDelays(frame), Cardinality({i \in 1..Len(frame) : frame[i].Aging_Delay # NaN}))

\* the invoices overdue by 90 days or more
overdue_90_or_more(frame) == SelectSeq(frame, LAMBDA r : r.Aging_Delay # NaN /\ r.Aging_Delay >= 90)

\* df_outstanding_invoices[df_outstanding_invoices['Aging_Delay'] > 90]: a
\* comparison with NaN is False
overdue_90_plus(frame) == SelectSeq(frame, LAMBDA r : r.Aging_Delay # NaN /\ r.Aging_Delay > 90)

\* df_paid_invoices[df_paid_invoices['Aging_Delay'] <= 0], counted for the
\* on-time payment rate
on_time(frame) == SelectSeq(frame, LAMBDA r : r.Aging_Delay # NaN /\ r.Aging_Delay <= 0)

\* a / b * 100 if b > 0 else 0
rate_or_zero(a, b) == IF IsPositive(b) THEN FloatRate(a, b) ELSE ZeroRate

\* CorrectedFactoringAnalyzer.executive_summary, from the collection rate on
ExecutiveFigures(self, total_billed, total_paid, total_outstanding) ==
    [status |-> "dict",
     total_outstanding |-> total_outstanding,
     collection_rate |-> rate_or_zero(total_paid, total_billed),
     avg_payment_delay |->
         IF Len(self.df_paid_invoices) > 0 THEN mean_delay(self.df_paid_invoices) ELSE ZeroRate,
     risk_percentage |->
         IF Len(self.df_outstanding_invoices) > 0
         THEN rate_or_zero(FloatSum(AmtDueColumn(overdue_90_plus(self.df_outstanding_invoices))),
                           total_outstanding)
         ELSE ZeroRate]

\* CorrectedFactoringAnalyzer.executive_summary
executive_summary(self) ==
    ExecutiveFigures(self,
                     FloatSum(AmountColumn(self.df_invoice)),
                     FloatSum(AmtPaidColumn(self.df_invoice)),
                     IF Len(self.df_outstanding_invoices) > 0
                     THEN FloatSum(AmtDueColumn(self.df_outstanding_invoices)) ELSE Zero)

\* the filter of executive_summary applied to the analyzer's own frame
after_aggregation_filtering(self) ==
    [self EXCEPT !.df_outstanding_invoices = overdue_90_plus(@)]

\* what a call of paid_invoices_aging_analysis, outstanding_invoices_aging_-
\* analysis or executive_summary does to the analyzer: the methods bind local
\* names only (paid_aging_summary, overdue_90_plus, ...); groupby, agg, round,
\* boolean indexing, sum and mean build new objects, and no attribute or
\* column of self is assigned
after_aggregation(self) == self

\* step 4 of FactoringAnalyzer.prepare_data: Days_Past_Due against the clock
\* and its bucket (the same computation is in export_aging_buckets)
past_due(frame, now) ==
    [i \in 1..Len(frame) |->
        [idx |-> frame[i].idx, Type |-> frame[i].Type, Due |-> frame[i].Due, LPD |-> frame[i].LPD,
         Amount |-> frame[i].Amount, AmtPaid |-> frame[i].AmtPaid, AmtDue |-> frame[i].AmtDue,
         Days_Past_Due |-> days_between(now, frame[i].Due),
         Aging_Bucket |-> cut(days_between(now, frame[i].Due), OutstandingLabels)]]

\* FactoringAnalyzer.prepare_data, steps 2 to 4: the split by Type, then the
\* dates and metrics of the invoices
FactoringByType(cleaned, invoice, now) ==
    [prepared |-> TRUE,
     df |-> past_due(parse_dates(invoice), now),
     df_invoice |-> invoice,
     df_credit_memo |-> type_rows(cleaned, "Credit Memo"),
     df_full |-> cleaned]

FactoringCleaned(cleaned, now) == FactoringByType(cleaned, type_rows(cleaned, "Invoice"), now)

\* FactoringAnalyzer.prepare_data, run when the clock reads `now`
FactoringPrepare(loaded, now) == FactoringCleaned(clean_rows(loaded), now)

\* Series.mean() of the Days_Past_Due column, NaN entries skipped
RECURSIVE SumDaysPastDue(_)
SumDaysPastDue(frame) ==
    IF frame = <<>> THEN 0
    ELSE (IF Head(frame).Days_Past_Due = NaN THEN 0 ELSE Head(frame).Days_Past_Due)
             + SumDaysPastDue(Tail(frame))

mean_days_past_due(frame) ==
    Quotient(SumDaysPastDue(frame),
             Cardinality({i \in 1..Len(frame) : frame[i].Days_Past_Due # NaN}))

\* self.df[self.df['Days_Past_Due'] > 90]
high_risk_rows(frame) ==
    SelectSeq(frame, LAMBDA r : r.Days_Past_Due # NaN /\ r.Days_Past_Due > 90)

\* FactoringAnalyzer.executive_summary, from the risk assessment on: the
\* quotients are float divisions without a guard
FactoringFigures(self, total_outstanding, total_billed, total_collected) ==
    [status |-> "dict",
     total_outstanding |-> total_outstanding,
     total_invoices |-> Len(self.df),
     avg_days_past_due |-> mean_days_past_due(self.df),
     collection_rate |-> FloatRate(total_collected, total_billed),
     risk_percentage |-> FloatRate(FloatSum(AmtDueColumn(high_risk_rows(self.df))),
                                   total_outstanding)]

\* FactoringAnalyzer.executive_summary
FactoringAnalyzer_executive_summary(self) ==
    FactoringFigures(self, FloatSum(AmtDueColumn(self.df)), FloatSum(AmountColumn(self.df)),
                     FloatSum(AmtPaidColumn(self.df)))

\* quick_test(), steps 5 and 6: df_test = df_raw.copy() is cleaned and split,
\* df_raw is returned as 'raw_data'
QuickSplit(df_raw, df_test) ==
    [done |-> TRUE,
     raw_data |-> df_raw,
     cleaned_data |-> df_test,
     invoice_data |-> type_rows(df_test, "Invoice"),
     credit_data |-> type_rows(df_test, "Credit Memo")]

\* quick_test(csv_path, encoding) on the rows it has loaded
quick_test(df_raw) == QuickSplit(df_raw, clean_rows(df_raw))

\* the Aging Delay Days of calculate_aging_correctly for one row with parsed
\* dates
aging_delay_days(r, inv_type) ==
    IF inv_type = "paid" THEN fillna0_days(days_between(r.LPD, r.Due))
    ELSE fillna0_days(days_between(dataset_date, r.Due))

age_rows(frame, inv_type) ==
    [i \in 1..Len(frame) |->
        AgedRow(frame[i], aging_delay_days(frame[i], inv_type),
                create_aging_bucket(aging_delay_days(frame[i], inv_type), inv_type))]

\* calculate_aging_correctly(df, invoice_type) of final_export.py
calculate_aging_correctly(frame, inv_type) ==
    IF Len(frame) = 0 THEN frame ELSE age_rows(parse_dates(frame), inv_type)

\* base_df[base_df['Amt. Due (USD)'] == 0]
zero_due_rows(frame) == SelectSeq(frame, LAMBDA r : IsZero(r.AmtDue))

\* base_df[base_df['Amt. Due (USD)'] > 0]
positive_due_rows(frame) == SelectSeq(frame, LAMBDA r : IsPositive(r.AmtDue))

\* the six labels in the order of Python's string comparison ('1' < '3' <
\* '6' < '9' < 'C' < 'O')
AlphabeticalLabels == <<"1-30 Days", "31-60 Days", "61-90 Days", "90+ Days", "Current", "On-time">>

\* the group keys of frame.groupby('Aging_Bucket') on string labels: the
\* labels present, sorted as strings
groupby_keys(frame) ==
    SelectSeq(AlphabeticalLabels, LAMBDA l : \E i \in 1..Len(frame) : frame[i].Aging_Bucket = l)

\* aging_order of sort_aging_buckets
aging_order == <<"On-time", "Current", "1-30 Days", "31-60 Days", "61-90 Days", "90+ Days">>

\* the code pd.Categorical(..., categories=aging_order, ordered=True) gives a
\* label; a label that is no category becomes NaN, which sort_values puts last
CategoryCode(label) ==
    IF \E k \in 1..Len(aging_order) : aging_order[k] = label
    THEN CHOOSE k \in 1..Len(aging_order) : aging_order[k] = label
    ELSE Len(aging_order) + 1

\* the rows sorted by ascending category in the order of their labels
RECURSIVE InsertByCategory(_, _)
InsertByCategory(row, sorted) ==
    IF sorted = <<>> THEN <<row>>
    ELSE IF CategoryCode(Head(sorted).Aging_Bucket) < CategoryCode(row.Aging_Bucket)
         THEN <<Head(sorted)>> \o InsertByCategory(row, Tail(sorted))
         ELSE <<row>> \o sorted

\* DataFrame.sort_values(aging_col) on the categorical column, for a table
\* with one row per label (rows of equal label are kept in their order)
RECURSIVE sort_values(_)
sort_values(table) ==
    IF table = <<>> THEN <<>> ELSE InsertByCategory(Head(table), sort_values(Tail(table)))

\* the codes of the categories spelled, not the categories
category_code_str(label) == ToString(CategoryCode(label) - 1)

\* Categorical.astype(str): a category is spelled as itself, NaN as 'nan'
category_str(label) == IF CategoryCode(label) <= Len(aging_order) THEN label ELSE "nan"

\* sort_aging_buckets(df, aging_col='Aging_Bucket')
sort_aging_buckets(table) ==
    [i \in 1..Len(table) |->
        [sort_values(table)[i] EXCEPT !.Aging_Bucket = category_str(@)]]

\* frame[col] for a monetary column
MoneyColumn(frame, col) ==
    IF col = "Amount (USD)" THEN AmountColumn(frame)
    ELSE IF col = "Amt. Paid (USD)" THEN AmtPaidColumn(frame)
    ELSE AmtDueColumn(frame)

\* the rows of a frame in one bucket
bucket_rows(frame, label) == SelectSeq(frame, LAMBDA r : r.Aging_Bucket = label)

\* Tables 1.1 / 2.1 before sorting: groupby('Aging_Bucket')['Number'].count()
count_by_aging(frame) ==
    [k \in 1..Len(groupby_keys(frame)) |->
        [Aging_Bucket |-> groupby_keys(frame)[k],
         Invoice_Count |-> CountBy(frame, groupby_keys(frame)[k])]]

\* Tables 1.3 / 2.3 before sorting: the count and the amount of each bucket
\* over the count and the amount of the frame
percentages_by_aging(frame, col) ==
    [k \in 1..Len(groupby_keys(frame)) |->
        [Aging_Bucket |-> groupby_keys(frame)[k],
         Count_Percentage |-> PercentOf(CountBy(frame, groupby_keys(frame)[k]), Len(frame)),
         Amount_Percentage |->
             FloatPercentOf(FloatSum(MoneyColumn(bucket_rows(frame, groupby_keys(frame)[k]), col)),
                            FloatSum(MoneyColumn(frame, col)))]]

\* the columns of pd.crosstab(frame['Applied to'], frame['Aging_Bucket'],
\* ...): the labels present, sorted as strings (every row is taken to name a
\* customer); .loc[top_customers] selects rows and keeps the columns
customer_matrix_columns(frame) == groupby_keys(frame)

\* the sheets final_export() writes for one population; no sheet is written
\* for an empty population
AgingSheets(frame, col) ==
    IF Len(frame) = 0 THEN [written |-> FALSE]
    ELSE [written |-> TRUE,
          Count_by_Aging |-> sort_aging_buckets(count_by_aging(frame)),
          Percentages |-> sort_aging_buckets(percentages_by_aging(frame, col)),
          Customer_Matrix |-> customer_matrix_columns(frame)]

\* final_export(), from the Summary sheet on
FinalSheets(an, paid, outstanding) ==
    [done |-> TRUE,
     base_df |-> an.df_invoice,
     df_paid_invoices |-> paid,
     df_outstanding_invoices |-> outstanding,
     Summary |-> [Total_Records |-> Len(an.df_full),
                  Invoices |-> Len(an.df_invoice),
                  Paid_Invoices |-> Len(paid),
                  Outstanding_Invoices |-> Len(outstanding),
                  Credit_Memos |-> Len(an.df_credit_memo)],
     Paid |-> AgingSheets(paid, "Amount (USD)"),
     Outstanding |-> AgingSheets(outstanding, "Amt. Due (USD)")]

\* final_export(): the two aged populations of the invoices of the analyzer
\* it has built, and the sheets computed from them
FinalExport(an) ==
    FinalSheets(an,
                calculate_aging_correctly(zero_due_rows(an.df_invoice), "paid"),
                calculate_aging_correctly(positive_due_rows(an.df_invoice), "outstanding"))

\* the bucket names whose frame is not empty, in the order of bucket_names
non_empty_buckets(aged) == SelectSeq(OutstandingLabels, LAMBDA l : CountBy(aged, l) > 0)

\* export_aging_buckets(), step 6: the rows of the Summary sheet, one for
\* each non-empty bucket, with the columns the counts enter;
\* Percentage_of_Total is rounded to two decimals before the sheet is written
summary_rows(aged, names) ==
    [k \in 1..Len(names) |->
        [Aging_Bucket |-> names[k],
         Invoice_Count |-> CountBy(aged, names[k]),
         Percentage_of_Total |-> PercentOf(CountBy(aged, names[k]), Len(aged))]]

summary_data(aged) == summary_rows(aged, non_empty_buckets(aged))

\* summary_df['Invoice_Count'].sum()
RECURSIVE SumInvoiceCount(_)
SumInvoiceCount(rows) ==
    IF rows = <<>> THEN 0 ELSE Head(rows).Invoice_Count + SumInvoiceCount(Tail(rows))

\* the Summary sheet with its totals row
SummarySheet(rows) ==
    [rows |-> rows,
     TOTAL |-> [Aging_Bucket |-> "TOTAL", Invoice_Count |-> SumInvoiceCount(rows),
                Percentage_of_Total |-> Canon(100, 0)]]

\* what export_aging_buckets() returns: without a non-empty bucket summary_df
\* has no column 'Invoice_Count', the KeyError is caught and None is returned
result_summary(aged, credit_memos) ==
    IF \A i \in 1..Len(aged) : aged[i].Aging_Bucket = "NaN" THEN [status |-> "None"]
    ELSE [status |-> "dict",
          total_invoices |-> Len(aged),
          total_credit_memos |-> Len(credit_memos),
          aging_breakdown |-> [k \in 1..5 |-> CountBy(aged, OutstandingLabels[k])]]

\* export_aging_buckets(), step 4: the aged invoices split into the
\* per-bucket frames written to the workbook
ExportBuckets(aged, credit_memos) ==
    [done |-> TRUE,
     df_invoices |-> aged,
     df_credit_memos |-> credit_memos,
     aging_buckets |-> [k \in 1..5 |-> bucket_rows(aged, OutstandingLabels[k])],
     Summary |-> SummarySheet(summary_data(aged)),
     result_summary |-> result_summary(aged, credit_memos)]

ExportConverted(converted, today) ==
    ExportBuckets(past_due(type_rows(converted, "Invoice"), today), type_rows(converted, "Credit Memo"))

\* export_aging_buckets(): cleaning, dates, split by Type, aging buckets
ExportAgingBuckets(loaded, today) == ExportConverted(parse_dates(clean_rows(loaded)), today)

(***************************************************************************)
(* States of the parts that a specification does not exercise              *)
(***************************************************************************)
IdleClassifier ==
    /\ days = 0
    /\ invoice_type = "paid"
    /\ classifier = "idle"
    /\ bucket = "none"

IdleMoney ==
    /\ raw = MissingValue
    /\ normalizer = "idle"
    /\ value = Zero

Unprepared == [prepared |-> FALSE]
NotDone == [done |-> FALSE]
NotCalled == [status |-> "not called"]
NoSummary == [paid |-> NotCalled, outstanding |-> NotCalled, executive |-> NotCalled]

IdlePipeline ==
    /\ df = <<>>
    /\ clock = dataset_date
    /\ script = "idle"
    /\ corrected = Unprepared
    /\ summary = NoSummary
    /\ analyzer = Unprepared
    /\ final = NotDone
    /\ exported = NotDone
    /\ history = <<>>
    /\ validation = NotDone

IdleLoader ==
    /\ given = "latin1"
    /\ csv = {}
    /\ attempts = <<>>
    /\ loader = [pc |-> "idle"]

IdleFatal ==
    /\ input = [file |-> "none"]
    /\ run = [pc |-> "idle"]

IdleDates == dates = [by |-> "idle"]
IdleMatrix == matrix = [pc |-> "idle"]
IdleRisk == risk = [pc |-> "idle"]
IdleDeposits == deposits = [pc |-> "idle"]
IdleTable == aging_table = [pc |-> "idle"]

IdleFunctions == IdleDates /\ IdleMatrix /\ IdleRisk /\ IdleDeposits /\ IdleTable

(***************************************************************************)
(* The classifier as a pure function of (days, invoice_type)               *)
(***************************************************************************)
InitClassifier ==
    /\ IdleFunctions
    /\ days \in (0 - MaxEarly)..MaxDelay
    /\ invoice_type \in {"paid", "outstanding"}
    /\ classifier = "none"
    /\ bucket = "none"
    /\ IdleMoney
    /\ IdlePipeline
    /\ IdleLoader
    /\ IdleFatal

\* the pd.cut of CorrectedFactoringAnalyzer.prepare_data
ClassifyCut ==
    /\ classifier = "none"
    /\ classifier' = "cut"
    /\ bucket' = cut(days, IF invoice_type = "paid" THEN PaidLabels ELSE OutstandingLabels)
    /\ UNCHANGED <<days, invoice_type, moneyVars, pipelineVars, loaderVars, fatalVars, functionVars>>

\* df['Aging Delay Days'].apply(lambda x: create_aging_bucket(x, invoice_type))
ClassifyApply ==
    /\ classifier = "none"
    /\ classifier' = "create_aging_bucket"
    /\ bucket' = create_aging_bucket(days, invoice_type)
    /\ UNCHANGED <<days, invoice_type, moneyVars, pipelineVars, loaderVars, fatalVars, functionVars>>

NextClassifier == ClassifyCut \/ ClassifyApply

SpecClassifier == InitClassifier /\ [][NextClassifier]_vars

(***************************************************************************)
(* The monetary normalizers as pure functions of one cell                  *)
(***************************************************************************)
Alphabet == {"$", ",", " ", "(", ")", "-", ".", "0", "1", "5", "e", "i", "n", "f", "a"}

Strings(maxLen) == UNION {[1..k -> Alphabet] : k \in 0..maxLen}

\* the amounts the documentation of the normalizer names
ExampleStrings ==
    {<<"$", "1", ",", "2", "3", "4", ".", "5", "6">>,
     <<"(", "5", "0", "0", ".", "0", "0", ")">>,
     <<"(", "1", ",", "2", "3", "4", ".", "5", "0", ")">>,
     <<"$", "0">>,
     <<"N", "/", "A">>,
     <<"(", "-", "5", "0", "0", ")">>}

MoneyCells ==
    {Str(t) : t \in Strings(MaxStrLen) \cup ExampleStrings}
        \cup {MissingValue} \cup {IntValue(k) : k \in {-500, 0, 7, 1234}}

InitMoney ==
    /\ IdleFunctions
    /\ raw \in MoneyCells
    /\ normalizer = "none"
    /\ value = Zero
    /\ IdleClassifier
    /\ IdlePipeline
    /\ IdleLoader
    /\ IdleFatal

\* the conversion of FactoringAnalyzer.prepare_data
NormalizeFactoring ==
    /\ normalizer = "none"
    /\ normalizer' = "FactoringAnalyzer"
    /\ value' = clean_monetary(raw)
    /\ UNCHANGED <<raw, classifierVars, pipelineVars, loaderVars, fatalVars, functionVars>>

\* the conversion of CorrectedFactoringAnalyzer.prepare_data
NormalizeCorrected ==
    /\ normalizer = "none"
    /\ normalizer' = "CorrectedFactoringAnalyzer"
    /\ value' = clean_monetary_corrected(raw)
    /\ UNCHANGED <<raw, classifierVars, pipelineVars, loaderVars, fatalVars, functionVars>>

NextMoney == NormalizeFactoring \/ NormalizeCorrected

SpecMoney == InitMoney /\ [][NextMoney]_vars

(***************************************************************************)
(* One run of one script on a loaded file: script is "none" until a        *)
(* script starts, and one process runs one script                          *)
(***************************************************************************)
TypeValues == {"Invoice", "Credit Memo", "Payment"}
DueValues == {Mdy(1, 1, 2025), Mdy(6, 23, 2025), Mdy(2, 30, 2025), MissingDate}
LPDValues == {Mdy(1, 15, 2025), Mdy(2, 28, 2024), MissingDate}
AmtDueValues == {Str(<<"0">>), Str(<<"$", "5", "0", "0">>)}

Scripts == {"routine_supportfor_report_v01", "factoring_analyzer", "final_export", "export_aging_buckets",
            "data_validation"}

\* an invoice paid twice over (a negative amount due, in accounting
\* notation), an invoice whose Last Payment Date is no calendar date, a paid
\* invoice of amount zero, an invoice due 90 days before the dataset date and
\* an invoice paid on its due date
SpecialRows ==
    {[Type |-> "Invoice", Due |-> Mdy(1, 1, 2025), LPD |-> Mdy(1, 15, 2025),
      Amount |-> Str(<<"$", "5", "0", "0">>), AmtPaid |-> Str(<<"1", ",", "0", "0", "0">>),
      AmtDue |-> Str(<<"(", "5", "0", "0", ".", "0", "0", ")">>)],
     [Type |-> "Invoice", Due |-> Mdy(1, 1, 2025), LPD |-> Mdy(2, 30, 2025),
      Amount |-> Str(<<"$", "5", "0", "0">>), AmtPaid |-> Str(<<"0">>),
      AmtDue |-> Str(<<"$", "5", "0", "0">>)],
     [Type |-> "Invoice", Due |-> Mdy(6, 23, 2025), LPD |-> Mdy(1, 15, 2025),
      Amount |-> Str(<<"0">>), AmtPaid |-> Str(<<"0">>), AmtDue |-> Str(<<"0">>)],
     [Type |-> "Invoice", Due |-> Mdy(3, 25, 2025), LPD |-> MissingDate,
      Amount |-> Str(<<"$", "5", "0", "0">>), AmtPaid |-> Str(<<"0">>),
      AmtDue |-> Str(<<"$", "5", "0", "0">>)],
     [Type |-> "Invoice", Due |-> Mdy(1, 15, 2025), LPD |-> Mdy(1, 15, 2025),
      Amount |-> Str(<<"$", "5", "0", "0">>), AmtPaid |-> Str(<<"$", "5", "0", "0">>),
      AmtDue |-> Str(<<"0">>)]}

\* invoices of amount $500 with every combination of dates and amount due,
\* the special invoices, and one row of each other type
RowValues ==
    [Type : {"Invoice"}, Due : DueValues, LPD : LPDValues,
     Amount : {Str(<<"$", "5", "0", "0">>)}, AmtPaid : {Str(<<"0">>)}, AmtDue : AmtDueValues]
        \cup SpecialRows
        \cup [Type : TypeValues \ {"Invoice"}, Due : {Mdy(1, 1, 2025)}, LPD : {MissingDate},
              Amount : {Str(<<"$", "5", "0", "0">>)}, AmtPaid : {Str(<<"0">>)},
              AmtDue : {Str(<<"$", "5", "0", "0">>)}]

\* the files of at most maxRows rows; read_csv labels the rows 1, 2, ...
Files(maxRows) ==
    UNION {{[i \in 1..k |-> [idx |-> i, Type |-> f[i].Type, Due |-> f[i].Due, LPD |-> f[i].LPD,
                              Amount |-> f[i].Amount, AmtPaid |-> f[i].AmtPaid,
                              AmtDue |-> f[i].AmtDue]] :
              f \in [1..k -> RowValues]} : k \in 0..maxRows}

Init ==
    /\ IdleFunctions
    /\ df \in Files(MaxRows)
    /\ clock = dataset_date
    /\ script = "none"
    /\ corrected = Unprepared
    /\ summary = NoSummary
    /\ analyzer = Unprepared
    /\ final = NotDone
    /\ exported = NotDone
    /\ history = <<>>
    /\ validation = NotDone
    /\ IdleClassifier
    /\ IdleMoney
    /\ IdleLoader
    /\ IdleFatal

\* CorrectedFactoringAnalyzer(csv_path): __init__ calls prepare_data
RunCorrected ==
    /\ script = "none"
    /\ script' = "routine_supportfor_report_v01"
    /\ corrected' = CorrectedPrepare(df)
    /\ UNCHANGED <<df, clock, summary, analyzer, final, exported, history, validation,
                   classifierVars, moneyVars, loaderVars, fatalVars, functionVars>>

PaidAnalysis ==
    /\ corrected.prepared
    /\ summary.paid.status = "not called"
    /\ summary' = [summary EXCEPT !.paid = paid_invoices_aging_analysis(corrected)]
    /\ UNCHANGED <<df, clock, script, corrected, analyzer, final, exported, history, validation,
                   classifierVars, moneyVars, loaderVars, fatalVars, functionVars>>

OutstandingAnalysis ==
    /\ corrected.prepared
    /\ summary.outstanding.status = "not called"
    /\ summary' = [summary EXCEPT !.outstanding = outstanding_invoices_aging_analysis(corrected)]
    /\ UNCHANGED <<df, clock, script, corrected, analyzer, final, exported, history, validation,
                   classifierVars, moneyVars, loaderVars, fatalVars, functionVars>>

ExecutiveSummary ==
    /\ corrected.prepared
    /\ summary.executive.status = "not called"
    /\ summary' = [summary EXCEPT !.executive = executive_summary(corrected)]
    /\ UNCHANGED <<df, clock, script, corrected, analyzer, final, exported, history, validation,
                   classifierVars, moneyVars, loaderVars, fatalVars, functionVars>>

\* FactoringAnalyzer(csv_path): __init__ calls prepare_data
RunFactoringAnalyzer ==
    /\ script = "none"
    /\ script' = "factoring_analyzer"
    /\ analyzer' = FactoringPrepare(df, clock)
    /\ UNCHANGED <<df, clock, corrected, summary, final, exported, history, validation,
                   classifierVars, moneyVars, loaderVars, fatalVars, functionVars>>

\* analyzer.executive_summary() on the FactoringAnalyzer of the script
FactoringExecutiveSummary ==
    /\ script = "factoring_analyzer"
    /\ analyzer.prepared
    /\ history = <<>>
    /\ history' = <<[call |-> "FactoringAnalyzer.executive_summary",
                     returned |-> FactoringAnalyzer_executive_summary(analyzer)]>>
    /\ UNCHANGED <<df, clock, script, corrected, summary, analyzer, final, exported, validation,
                   classifierVars, moneyVars, loaderVars, fatalVars, functionVars>>

\* final_export(): builds a FactoringAnalyzer, then splits and ages its invoices
RunFinalExport ==
    /\ script = "none"
    /\ script' = "final_export"
    /\ analyzer' = FactoringPrepare(df, clock)
    /\ final' = FinalExport(analyzer')
    /\ UNCHANGED <<df, clock, corrected, summary, exported, history, validation,
                   classifierVars, moneyVars, loaderVars, fatalVars, functionVars>>

\* export_aging_buckets(csv_path, output_path)
RunExportAgingBuckets ==
    /\ script = "none"
    /\ script' = "export_aging_buckets"
    /\ exported' = ExportAgingBuckets(df, clock)
    /\ UNCHANGED <<df, clock, corrected, summary, analyzer, final, history, validation,
                   classifierVars, moneyVars, loaderVars, fatalVars, functionVars>>

\* quick_test(csv_path)
RunQuickTest ==
    /\ script = "none"
    /\ script' = "data_validation"
    /\ validation' = quick_test(df)
    /\ UNCHANGED <<df, clock, corrected, summary, analyzer, final, exported, history,
                   classifierVars, moneyVars, loaderVars, fatalVars, functionVars>>

Next ==
    \/ RunQuickTest
    \/ RunCorrected
    \/ PaidAnalysis
    \/ OutstandingAnalysis
    \/ ExecutiveSummary
    \/ RunFactoringAnalyzer
    \/ FactoringExecutiveSummary
    \/ RunFinalExport
    \/ RunExportAgingBuckets

Spec == Init /\ [][Next]_vars

(***************************************************************************)
(* The same file processed twice by the same script while the clock runs   *)
(***************************************************************************)
InitRerun ==
    /\ IdleFunctions
    /\ df \in Files(MaxRerunRows)
    /\ clock = dataset_date
    /\ script = "none"
    /\ corrected = Unprepared
    /\ summary = NoSummary
    /\ analyzer = Unprepared
    /\ final = NotDone
    /\ exported = NotDone
    /\ history = <<>>
    /\ validation = NotDone
    /\ IdleClassifier
    /\ IdleMoney
    /\ IdleLoader
    /\ IdleFatal

\* a day passes
Tick ==
    /\ clock < dataset_date + MaxTicks
    /\ clock' = clock + 1
    /\ UNCHANGED <<df, script, corrected, summary, analyzer, final, exported, history, validation,
                   classifierVars, moneyVars, loaderVars, fatalVars, functionVars>>

MayRun(name) == script \in {"none", name} /\ Len(history) < 2

\* run_full_analysis of routine_supportfor_report_v01: construction, then
\* the two aging analyses
RerunCorrected ==
    /\ MayRun("routine_supportfor_report_v01")
    /\ script' = "routine_supportfor_report_v01"
    /\ corrected' = CorrectedPrepare(df)
    /\ summary' = [paid |-> paid_invoices_aging_analysis(corrected'),
                   outstanding |-> outstanding_invoices_aging_analysis(corrected'),
                   executive |-> executive_summary(corrected')]
    /\ history' = Append(history, [prepared |-> corrected', tables |-> summary'])
    /\ UNCHANGED <<df, clock, analyzer, final, exported, validation,
                   classifierVars, moneyVars, loaderVars, fatalVars, functionVars>>

RerunFactoringAnalyzer ==
    /\ MayRun("factoring_analyzer")
    /\ script' = "factoring_analyzer"
    /\ analyzer' = FactoringPrepare(df, clock)
    /\ history' = Append(history, [prepared |-> analyzer'])
    /\ UNCHANGED <<df, clock, corrected, summary, final, exported, validation,
                   classifierVars, moneyVars, loaderVars, fatalVars, functionVars>>

RerunFinalExport ==
    /\ MayRun("final_export")
    /\ script' = "final_export"
    /\ analyzer' = FactoringPrepare(df, clock)
    /\ final' = FinalExport(analyzer')
    /\ history' = Append(history, [populations |-> final'])
    /\ UNCHANGED <<df, clock, corrected, summary, exported, validation,
                   classifierVars, moneyVars, loaderVars, fatalVars, functionVars>>

RerunExportAgingBuckets ==
    /\ MayRun("export_aging_buckets")
    /\ script' = "export_aging_buckets"
    /\ exported' = ExportAgingBuckets(df, clock)
    /\ history' = Append(history, [workbook |-> exported'])
    /\ UNCHANGED <<df, clock, corrected, summary, analyzer, final, validation,
                   classifierVars, moneyVars, loaderVars, fatalVars, functionVars>>

NextRerun ==
    \/ Tick
    \/ RerunCorrected
    \/ RerunFactoringAnalyzer
    \/ RerunFinalExport
    \/ RerunExportAgingBuckets

SpecRerun == InitRerun /\ [][NextRerun]_vars

(***************************************************************************)
(* The aggregation methods called on one prepared analyzer, in any order   *)
(* and any number of times; history keeps what each call returned          *)
(***************************************************************************)
InitAggregation == InitRerun

MayCall == corrected.prepared /\ Len(history) < MaxCalls

CallPaidAnalysis ==
    /\ MayCall
    /\ history' = Append(history, [call |-> "paid_invoices_aging_analysis",
                                   returned |-> paid_invoices_aging_analysis(corrected)])
    /\ corrected' = after_aggregation(corrected)
    /\ UNCHANGED <<df, clock, script, summary, analyzer, final, exported, validation,
                   classifierVars, moneyVars, loaderVars, fatalVars, functionVars>>

CallOutstandingAnalysis ==
    /\ MayCall
    /\ history' = Append(history, [call |-> "outstanding_invoices_aging_analysis",
                                   returned |-> outstanding_invoices_aging_analysis(corrected)])
    /\ corrected' = after_aggregation(corrected)
    /\ UNCHANGED <<df, clock, script, summary, analyzer, final, exported, validation,
                   classifierVars, moneyVars, loaderVars, fatalVars, functionVars>>

CallExecutiveSummary ==
    /\ MayCall
    /\ history' = Append(history, [call |-> "executive_summary",
                                   returned |-> executive_summary(corrected)])
    /\ corrected' = after_aggregation(corrected)
    /\ UNCHANGED <<df, clock, script, summary, analyzer, final, exported, validation,
                   classifierVars, moneyVars, loaderVars, fatalVars, functionVars>>

NextAggregation ==
    \/ RunCorrected
    \/ CallPaidAnalysis
    \/ CallOutstandingAnalysis
    \/ CallExecutiveSummary

SpecAggregation == InitAggregation /\ [][NextAggregation]_vars

(***************************************************************************)
(* A run of an entry point on an input file that may be missing or         *)
(* unreadable or may lack columns.  The input is [file, columns, paid,     *)
(* outstanding]: whether read_csv succeeds, the columns of the frame, and  *)
(* whether it holds paid and outstanding invoices (all with a Due Date).   *)
(* The run is [entry, pc, analyzer, produced, diagnostics, aborted].       *)
(***************************************************************************)
RequiredColumns ==
    {"Type", "Number", "Transaction Date", "Applied to", "Amount (USD)", "Due Date", "Status",
     "Last Payment Date", "Amt. Paid (USD)", "Amt. Due (USD)"}

ColumnSets(maxMissing) ==
    {RequiredColumns \ m : m \in {x \in SUBSET RequiredColumns : Cardinality(x) <= maxMissing}}

Inputs(maxMissing) ==
    [file : {"readable", "unreadable", "missing"}, columns : ColumnSets(maxMissing),
     paid : BOOLEAN, outstanding : BOOLEAN, weasyprint : BOOLEAN]

NotStarted ==
    [entry |-> "none", pc |-> "start", analyzer |-> "none", produced |-> {}, diagnostics |-> {},
     aborted |-> FALSE, calls |-> <<>>]

\* a function that main called has returned
Returned(r, call, result) ==
    [r EXCEPT !.calls = Append(@, [call |-> call, returned |-> result])]

\* an exception that nothing catches, a caught one that ends the entry point,
\* or an early return: the run is over, with a message
Abort(r, message) ==
    [r EXCEPT !.pc = "done", !.aborted = TRUE, !.diagnostics = @ \cup {message}]

\* the first column prepare_data subscripts without a guard and does not find
\* (lines 45, 67, 76-77, 89); "none" when it runs to its end
prepare_data_error(inp) ==
    IF "Type" \notin inp.columns THEN "KeyError: 'Type'"
    ELSE IF "Last Payment Date" \notin inp.columns THEN "KeyError: 'Last Payment Date'"
    ELSE IF (inp.paid \/ inp.outstanding) /\ "Due Date" \notin inp.columns THEN "KeyError: 'Due Date'"
    ELSE "none"

\* CorrectedFactoringAnalyzer(csv_path): a failed read is printed and the
\* constructor returns an analyzer without frames; an exception of
\* prepare_data leaves the constructor
Construct(r, inp) ==
    IF inp.file # "readable"
    THEN [r EXCEPT !.pc = "paid", !.analyzer = "unprepared",
                   !.diagnostics = @ \cup {"Error loading data"}]
    ELSE IF prepare_data_error(inp) # "none" THEN Abort(r, prepare_data_error(inp))
    ELSE [r EXCEPT !.pc = "paid", !.analyzer = "prepared"]

\* one step of run_full_analysis: the method raises AttributeError on an
\* analyzer without frames, returns None for an empty population, raises
\* KeyError when a column it aggregates is missing, else produces its output
Analyse(r, inp, populated, columns, output, next) ==
    IF r.analyzer # "prepared" THEN Abort(r, "AttributeError")
    ELSE IF ~populated THEN [r EXCEPT !.pc = next]
    ELSE IF ~(columns \subseteq inp.columns) THEN Abort(r, "KeyError")
    ELSE [r EXCEPT !.pc = next, !.produced = @ \cup {output}]

\* the columns executive_summary sums
ExecutiveColumns(inp) ==
    {"Amount (USD)", "Amt. Paid (USD)"}
        \cup (IF inp.outstanding THEN {"Amt. Due (USD)"} ELSE {})

\* export_aging_buckets(), steps 1 to 4: read, clean and convert the columns
\* that exist, split by Type, age by Due Date and Transaction Date
ExportLoaded(r, inp) ==
    IF inp.file # "readable" THEN Abort(r, "Error loading data")
    ELSE IF "Type" \notin inp.columns THEN Abort(r, "KeyError: 'Type'")
    ELSE IF "Due Date" \notin inp.columns THEN Abort(r, "KeyError: 'Due Date'")
    ELSE IF "Transaction Date" \notin inp.columns THEN Abort(r, "KeyError: 'Transaction Date'")
    ELSE [r EXCEPT !.pc = "worksheets"]

\* export_aging_buckets(), step 5: a worksheet for each non-empty bucket, with
\* the export columns that exist
ExportWorksheets(r, inp) ==
    [r EXCEPT !.pc = "summary",
              !.produced = @ \cup (IF inp.paid \/ inp.outstanding THEN {"bucket worksheets"} ELSE {})]

\* export_aging_buckets(), step 6: the summary rows of the non-empty buckets
\* and the totals row; an exception is caught by the except of line 207
ExportSummarized(r, inp) ==
    IF (inp.paid \/ inp.outstanding)
          /\ ~({"Amount (USD)", "Amt. Due (USD)", "Amt. Paid (USD)"} \subseteq inp.columns)
    THEN Abort(r, "Error creating Excel file")
    ELSE IF ~(inp.paid \/ inp.outstanding) THEN Abort(r, "Error creating Excel file")
    ELSE [r EXCEPT !.pc = "result", !.produced = @ \cup {"summary worksheet"}]

\* setup_environment: False without the data file or without weasyprint and
\* jinja2 (pandas and matplotlib are what every entry point imports)
setup_environment(r, inp) ==
    IF inp.file = "missing"
    THEN Returned(Abort(r, "Data file not found"), "setup_environment", "False")
    ELSE IF ~inp.weasyprint
    THEN Returned(Abort(r, "Missing packages"), "setup_environment", "False")
    ELSE Returned([r EXCEPT !.pc = "construct"], "setup_environment", "True")

\* run_factoring_analysis returns (None, None) from its except and
\* (analyzer, results) after run_full_analysis; main returns on the first
run_factoring_analysis(r) ==
    IF r.entry # "generate_professional_report" THEN r
    ELSE IF r.aborted THEN Returned(r, "run_factoring_analysis", "None, None")
    ELSE IF r.pc = "reports" THEN Returned(r, "run_factoring_analysis", "analyzer, results")
    ELSE r

original_report_raising(r) ==
    Returned(Abort(r, "Error generating original report"), "generate_original_report", "None")

\* generate_original_report: importing reports.report_v01 runs its lines 636
\* to 663, where analyzer is not a name of the module (or an import fails);
\* both except clauses print and return None, and main goes on
generate_original_report(r) ==
    Returned([r EXCEPT !.pc = "professional",
                       !.diagnostics = @ \cup {"Error generating original report"}],
             "generate_original_report", "None")

\* generate_professional_report: the path of the PDF, or None from its except
generate_professional_report(r, written) ==
    IF written
    THEN Returned([r EXCEPT !.pc = "done", !.produced = @ \cup {"professional report"}],
                  "generate_professional_report", "report_path")
    ELSE Returned([r EXCEPT !.pc = "done",
                            !.diagnostics = @ \cup {"Error generating professional report"}],
                  "generate_professional_report", "None")

InitFatal ==
    /\ IdleFunctions
    /\ input \in Inputs(MaxMissing)
    /\ run = NotStarted
    /\ IdleClassifier
    /\ IdleMoney
    /\ IdlePipeline
    /\ IdleLoader

\* routine_supportfor_report_v01, line 309
ScriptConstruct ==
    /\ run.entry = "none"
    /\ run' = Construct([run EXCEPT !.entry = "routine_supportfor_report_v01"], input)
    /\ UNCHANGED <<input, classifierVars, moneyVars, pipelineVars, loaderVars, functionVars>>

\* generate_professional_report.main, step 1: setup_environment
SetupEnvironment ==
    /\ run.entry = "none"
    /\ run' = setup_environment([run EXCEPT !.entry = "generate_professional_report"], input)
    /\ UNCHANGED <<input, classifierVars, moneyVars, pipelineVars, loaderVars, functionVars>>

\* run_factoring_analysis: the construction, inside its try
ReportConstruct ==
    /\ run.pc = "construct"
    /\ run' = run_factoring_analysis(Construct(run, input))
    /\ UNCHANGED <<input, classifierVars, moneyVars, pipelineVars, loaderVars, functionVars>>

\* run_full_analysis: paid_invoices_aging_analysis
RunPaidAnalysis ==
    /\ run.pc = "paid"
    /\ run' = run_factoring_analysis(Analyse(run, input, input.paid, {"Number", "Amount (USD)"},
                                              "paid aging table", "outstanding"))
    /\ UNCHANGED <<input, classifierVars, moneyVars, pipelineVars, loaderVars, functionVars>>

\* run_full_analysis: outstanding_invoices_aging_analysis
RunOutstandingAnalysis ==
    /\ run.pc = "outstanding"
    /\ run' = run_factoring_analysis(
                  Analyse(run, input, input.outstanding, {"Number", "Amount (USD)", "Amt. Due (USD)"},
                          "outstanding aging table", "executive"))
    /\ UNCHANGED <<input, classifierVars, moneyVars, pipelineVars, loaderVars, functionVars>>

\* run_full_analysis: executive_summary, which has no early return
RunExecutiveSummary ==
    /\ run.pc = "executive"
    /\ run' = run_factoring_analysis(
                  Analyse(run, input, TRUE, ExecutiveColumns(input), "executive summary",
                          IF run.entry = "generate_professional_report" THEN "reports" ELSE "done"))
    /\ UNCHANGED <<input, classifierVars, moneyVars, pipelineVars, loaderVars, functionVars>>

\* generate_professional_report.main, step 3, first call
GenerateOriginalReport ==
    /\ run.pc = "reports"
    /\ run' = generate_original_report(run)
    /\ UNCHANGED <<input, classifierVars, moneyVars, pipelineVars, loaderVars, functionVars>>

\* generate_professional_report.main, step 3, second call, and steps 4 and 5,
\* which print
GenerateProfessionalReport ==
    /\ run.pc = "professional"
    /\ \E written \in BOOLEAN : run' = generate_professional_report(run, written)
    /\ UNCHANGED <<input, classifierVars, moneyVars, pipelineVars, loaderVars, functionVars>>

ExportLoad ==
    /\ run.entry = "none"
    /\ run' = ExportLoaded([run EXCEPT !.entry = "export_aging_buckets"], input)
    /\ UNCHANGED <<input, classifierVars, moneyVars, pipelineVars, loaderVars, functionVars>>

ExportWrite ==
    /\ run.pc = "worksheets"
    /\ run' = ExportWorksheets(run, input)
    /\ UNCHANGED <<input, classifierVars, moneyVars, pipelineVars, loaderVars, functionVars>>

ExportSummary ==
    /\ run.pc = "summary"
    /\ run' = ExportSummarized(run, input)
    /\ UNCHANGED <<input, classifierVars, moneyVars, pipelineVars, loaderVars, functionVars>>

\* export_aging_buckets(): the workbook is saved and result_summary returned
ExportResult ==
    /\ run.pc = "result"
    /\ run' = [run EXCEPT !.pc = "done", !.produced = @ \cup {"export summary"}]
    /\ UNCHANGED <<input, classifierVars, moneyVars, pipelineVars, loaderVars, functionVars>>

NextFatal ==
    \/ ScriptConstruct
    \/ SetupEnvironment
    \/ ReportConstruct
    \/ RunPaidAnalysis
    \/ RunOutstandingAnalysis
    \/ RunExecutiveSummary
    \/ GenerateOriginalReport
    \/ GenerateProfessionalReport
    \/ ExportLoad
    \/ ExportWrite
    \/ ExportSummary
    \/ ExportResult

SpecFatal == InitFatal /\ [][NextFatal]_vars

(***************************************************************************)
(* The loading of the CSV file by FactoringAnalyzer.__init__ and by        *)
(* quick_test.  csv is the set of codecs under which the bytes of the file *)
(* decode, given the encoding argument, attempts the reads made so far as  *)
(* [encoding, error], loader the position of the script, the frame it      *)
(* holds (named by the encoding it was read with) and the frame it used.   *)
(***************************************************************************)
Codecs == {"latin1", "utf-8", "cp1252"}

\* every byte string decodes as latin1
EncodedFiles == {decodes \in SUBSET Codecs : "latin1" \in decodes}

Loaders == {"FactoringAnalyzer", "quick_test"}

\* pd.read_csv without an encoding decodes as utf-8
Codec(encoding) ==
    IF encoding = "default" THEN "utf-8" ELSE encoding

\* the errors pd.read_csv(csv_path, encoding=encoding) can end with: "none"
\* for a frame, UnicodeDecodeError when the bytes do not decode, and at any
\* read an error of another class (the file cannot be opened or parsed)
read_csv(decodes, encoding) ==
    {"OtherError"} \cup (IF Codec(encoding) \in decodes THEN {"none"} ELSE {"UnicodeDecodeError"})

falls_back_on_any(error) ==
    error # "none"

\* except UnicodeDecodeError: the handler of the first read
falls_back(error) ==
    error = "UnicodeDecodeError"

\* an exception no handler of the loader catches leaves FactoringAnalyzer's
\* constructor; quick_test's except Exception catches the one of its first
\* read, prints it and returns None
Uncaught(l) ==
    [l EXCEPT !.pc = "done", !.result = "raised"]

InitLoader ==
    /\ IdleFunctions
    /\ given \in Codecs
    /\ csv \in EncodedFiles
    /\ attempts = <<>>
    /\ \E caller \in Loaders :
          loader = [script |-> caller, pc |-> "given", df |-> "none", used |-> "none",
                    result |-> "running"]
    /\ IdleClassifier
    /\ IdleMoney
    /\ IdlePipeline
    /\ IdleFatal

\* the first read, with the given encoding
ReadGiven ==
    /\ loader.pc = "given"
    /\ \E error \in read_csv(csv, given) :
          /\ attempts' = Append(attempts, [encoding |-> given, error |-> error])
          /\ loader' = IF error = "none" THEN [loader EXCEPT !.pc = "loaded", !.df = given]
                       ELSE IF falls_back(error) THEN [loader EXCEPT !.pc = "utf-8"]
                       ELSE IF loader.script = "quick_test"
                            THEN [loader EXCEPT !.pc = "done", !.result = "returned None"]
                       ELSE Uncaught(loader)
    /\ UNCHANGED <<given, csv, classifierVars, moneyVars, pipelineVars, fatalVars, functionVars>>

\* the second read, in the handler of UnicodeDecodeError; its bare except
\* catches every error
ReadUtf8 ==
    /\ loader.pc = "utf-8"
    /\ \E error \in read_csv(csv, "utf-8") :
          /\ attempts' = Append(attempts, [encoding |-> "utf-8", error |-> error])
          /\ loader' = IF error = "none" THEN [loader EXCEPT !.pc = "loaded", !.df = "utf-8"]
                       ELSE [loader EXCEPT !.pc = "default"]
    /\ UNCHANGED <<given, csv, classifierVars, moneyVars, pipelineVars, fatalVars, functionVars>>

\* the third read, without an encoding, inside two handlers: its error
\* propagates out of both scripts
ReadDefault ==
    /\ loader.pc = "default"
    /\ \E error \in read_csv(csv, "default") :
          /\ attempts' = Append(attempts, [encoding |-> "default", error |-> error])
          /\ loader' = IF error = "none" THEN [loader EXCEPT !.pc = "loaded", !.df = "default"]
                       ELSE Uncaught(loader)
    /\ UNCHANGED <<given, csv, classifierVars, moneyVars, pipelineVars, fatalVars, functionVars>>

\* self.prepare_data() of FactoringAnalyzer, the validation steps of
\* quick_test: the frame held is the frame used
UseData ==
    /\ loader.pc = "loaded"
    /\ loader' = [loader EXCEPT !.pc = "done", !.used = loader.df, !.result = "completed"]
    /\ UNCHANGED <<given, csv, attempts, classifierVars, moneyVars, pipelineVars, fatalVars, functionVars>>

NextLoader ==
    \/ ReadGiven
    \/ ReadUtf8
    \/ ReadDefault
    \/ UseData

SpecLoader == InitLoader /\ [][NextLoader]_vars

(***************************************************************************)
(* The date conversions as functions of one cell.  dates is [cell, by,     *)
(* parsed, has_payment_date]: the cell of a date column of a file whose    *)
(* first dated row it is, the code that converted it, the Timestamp, and    *)
(* whether the split of CorrectedFactoringAnalyzer sees a payment date     *)
(* when the cell is a Last Payment Date                                    *)
(***************************************************************************)
TextDate == [kind |-> "text", m |-> 0, d |-> 0, y |-> 0]

DateCells ==
    [kind : {"mdy"}, m : 0..MaxMonth, d : 0..MaxDayOfMonth, y : {2024, 2025}]
        \cup {MissingDate, TextDate}

\* pd.to_datetime(col, errors='coerce') on the first date string of a column:
\* without a format the string is read month first, and day first when that
\* gives no date (dateutil in pandas 1, the format guessed from the first
\* string in pandas 2)
to_datetime_inferred(x) ==
    IF x.kind # "mdy" THEN NaT
    ELSE IF x.m >= 1 /\ x.m <= 12 /\ x.d >= 1 /\ x.d <= DaysInMonth(x.m, x.y)
    THEN Ordinal(x.m, x.d, x.y)
    ELSE IF x.d >= 1 /\ x.d <= 12 /\ x.m >= 1 /\ x.m <= DaysInMonth(x.d, x.y)
    THEN Ordinal(x.d, x.m, x.y)
    ELSE NaT

\* Series.notna() on a datetime cell
notna(t) == t # NaT

InitDates ==
    /\ \E cell \in DateCells :
          dates = [cell |-> cell, by |-> "none", parsed |-> NaT, has_payment_date |-> FALSE]
    /\ IdleClassifier
    /\ IdleMoney
    /\ IdlePipeline
    /\ IdleLoader
    /\ IdleFatal
    /\ IdleMatrix
    /\ IdleRisk
    /\ IdleDeposits
    /\ IdleTable

\* CorrectedFactoringAnalyzer.prepare_data, steps 3 and 4
ConvertCorrected ==
    /\ dates.by = "none"
    /\ dates' = [dates EXCEPT !.by = "CorrectedFactoringAnalyzer",
                              !.parsed = to_datetime(dates.cell),
                              !.has_payment_date = notna(to_datetime(dates.cell))]
    /\ UNCHANGED <<classifierVars, moneyVars, pipelineVars, loaderVars, fatalVars,
                   matrix, risk, deposits, aging_table>>

\* FactoringAnalyzer.prepare_data, step 3
ConvertFactoring ==
    /\ dates.by = "none"
    /\ dates' = [dates EXCEPT !.by = "FactoringAnalyzer",
                              !.parsed = to_datetime_inferred(dates.cell)]
    /\ UNCHANGED <<classifierVars, moneyVars, pipelineVars, loaderVars, fatalVars,
                   matrix, risk, deposits, aging_table>>

\* calculate_aging_correctly on the frame of FactoringAnalyzer: pd.to_datetime
\* of a datetime column returns its values
ConvertAgain ==
    /\ dates.by = "FactoringAnalyzer"
    /\ dates' = [dates EXCEPT !.by = "calculate_aging_correctly"]
    /\ UNCHANGED <<classifierVars, moneyVars, pipelineVars, loaderVars, fatalVars,
                   matrix, risk, deposits, aging_table>>

NextDates == ConvertCorrected \/ ConvertFactoring \/ ConvertAgain

SpecDates == InitDates /\ [][NextDates]_vars

(***************************************************************************)
(* The customer aging matrix of test_table_fix.py and of the PDF report    *)
(* (Tables 1.4 and 2.4), as a function of one population of aged invoices. *)
(* A row is [Applied_to, Aging_Bucket, value]: the customer, the bucket    *)
(* and the Amount (USD) of a paid invoice or the Amt. Due (USD) of an      *)
(* outstanding one, in whole dollars.  matrix is [pc, population, frame,   *)
(* columns, values, pct].                                                  *)
(***************************************************************************)
Customers == {"Acme", "Bolt"}

MatrixBuckets == {"On-time", "Current", "1-30 Days", "90+ Days"}

\* the buckets create_aging_bucket gives a population
PopulationBuckets(population) ==
    MatrixBuckets \ (IF population = "paid" THEN {"Current"} ELSE {"On-time"})

\* the values of the column the matrix sums: any cleaned Amount (USD) for the
\* paid invoices (Amt. Due (USD) == 0), an Amt. Due (USD) > 0 for the
\* outstanding ones
PopulationValues(population) ==
    IF population = "paid" THEN {-500, 0, 500} ELSE {500, 1000}

\* the populations of at most maxInvoices invoices; no matrix is built for an
\* empty one
PopulationFrames(population, maxInvoices) ==
    UNION {[1..k -> [Applied_to : Customers, Aging_Bucket : PopulationBuckets(population),
                     value : PopulationValues(population)]] : k \in 1..maxInvoices}

RECURSIVE SumValues(_)
SumValues(frame) == IF frame = <<>> THEN 0 ELSE Head(frame).value + SumValues(Tail(frame))

\* the index of pd.crosstab: the customers present
crosstab_index(frame) == {frame[i].Applied_to : i \in 1..Len(frame)}

\* aging_order filtered by the columns of the crosstab (available_cols)
available_cols(frame) ==
    SelectSeq(aging_order, LAMBDA col : \E i \in 1..Len(frame) : frame[i].Aging_Bucket = col)

\* pd.crosstab(..., values=..., aggfunc='sum').fillna(0), reindexed by
\* available_cols: the sum of the values of a customer in a bucket, 0 where
\* the customer has no invoice in it
crosstab_values(frame) ==
    [c \in crosstab_index(frame) |->
        [k \in 1..Len(available_cols(frame)) |->
            SumValues(SelectSeq(frame, LAMBDA r : r.Applied_to = c
                                                  /\ r.Aging_Bucket = available_cols(frame)[k]))]]

\* values.sum(axis=1)
RECURSIVE row_sum(_)
row_sum(cells) == IF cells = <<>> THEN 0 ELSE Head(cells) + row_sum(Tail(cells))

\* n / d * 100 for integers n and d, by float division, then fillna(0) and
\* round(1): 0 / 0 is nan and becomes 0, n / 0 is an infinity and stays one
percent_round1(n, d) ==
    IF d = 0 THEN fillna0(IF n = 0 THEN FloatNaN ELSE FloatInf(Sign(n)))
    ELSE Canon(RoundHalfEven(Sign(d) * n * 1000, Sign(d) * d), -1)

\* values.div(values.sum(axis=1), axis=0) * 100, .fillna(0).round(1)
row_percentages(values) ==
    [c \in DOMAIN values |->
        [k \in 1..Len(values[c]) |-> percent_round1(values[c][k], row_sum(values[c]))]]

InitMatrix ==
    /\ \E population \in {"paid", "outstanding"} :
          \E frame \in PopulationFrames(population, MaxInvoices) :
             matrix = [pc |-> "aged", population |-> population, frame |-> frame,
                       columns |-> <<>>, values |-> <<>>, pct |-> <<>>]
    /\ IdleClassifier
    /\ IdleMoney
    /\ IdlePipeline
    /\ IdleLoader
    /\ IdleFatal
    /\ IdleDates
    /\ IdleRisk
    /\ IdleDeposits
    /\ IdleTable

\* the pivot table and its columns in aging order
CreatePivot ==
    /\ matrix.pc = "aged"
    /\ matrix' = [matrix EXCEPT !.pc = "values", !.columns = available_cols(matrix.frame),
                                !.values = crosstab_values(matrix.frame)]
    /\ UNCHANGED <<classifierVars, moneyVars, pipelineVars, loaderVars, fatalVars,
                   dates, risk, deposits, aging_table>>

\* the row percentages
CalculatePercentages ==
    /\ matrix.pc = "values"
    /\ matrix' = [matrix EXCEPT !.pc = "done", !.pct = row_percentages(matrix.values)]
    /\ UNCHANGED <<classifierVars, moneyVars, pipelineVars, loaderVars, fatalVars,
                   dates, risk, deposits, aging_table>>

NextMatrix == CreatePivot \/ CalculatePercentages

SpecMatrix == InitMatrix /\ [][NextMatrix]_vars

(***************************************************************************)
(* The risk level the reports derive from risk_percentage.  risk is [pc,   *)
(* risk_percentage, levels]: the value of the executive summary, a         *)
(* fraction as executive_summary returns it, and the level each place has  *)
(* written, "none" before it has                                           *)
(***************************************************************************)
RiskPlaces ==
    {"ReportLab risk indicator", "ReportLab executive summary", "matplotlib cover page",
     "WeasyPrint template data"}

\* x < k and x > k for a finite fraction x and an integer k
LessThan(x, k) == x.num < k * x.den
GreaterThan(x, k) == x.num > k * x.den

\* if risk_percentage < 10 ... elif risk_percentage < 20 ... else
level_by_less_than(risk_percentage) ==
    IF LessThan(risk_percentage, 10) THEN "LOW"
    ELSE IF LessThan(risk_percentage, 20) THEN "MODERATE"
    ELSE "HIGH"

\* HIGH if risk_percentage > 20 else MODERATE if risk_percentage > 10 else LOW
level_by_greater_than(risk_percentage) ==
    IF GreaterThan(risk_percentage, 20) THEN "HIGH"
    ELSE IF GreaterThan(risk_percentage, 10) THEN "MODERATE"
    ELSE "LOW"

InitRisk ==
    /\ \E n \in 0..MaxRiskHalves :
          risk = [pc |-> "summarized", risk_percentage |-> Quotient(n, 2),
                  levels |-> [place \in RiskPlaces |-> "none"]]
    /\ IdleClassifier
    /\ IdleMoney
    /\ IdlePipeline
    /\ IdleLoader
    /\ IdleFatal
    /\ IdleDates
    /\ IdleMatrix
    /\ IdleDeposits
    /\ IdleTable

\* ReportLabProfessionalReport.create_risk_indicator
CreateRiskIndicator ==
    /\ risk.pc = "summarized"
    /\ risk.levels["ReportLab risk indicator"] = "none"
    /\ risk' = [risk EXCEPT !.levels["ReportLab risk indicator"] =
                                level_by_less_than(risk.risk_percentage)]
    /\ UNCHANGED <<classifierVars, moneyVars, pipelineVars, loaderVars, fatalVars,
                   dates, matrix, deposits, aging_table>>

\* ReportLabProfessionalReport.generate_report: the executive summary text
WriteExecutiveSummary ==
    /\ risk.pc = "summarized"
    /\ risk.levels["ReportLab executive summary"] = "none"
    /\ risk' = [risk EXCEPT !.levels["ReportLab executive summary"] =
                                level_by_greater_than(risk.risk_percentage)]
    /\ UNCHANGED <<classifierVars, moneyVars, pipelineVars, loaderVars, fatalVars,
                   dates, matrix, deposits, aging_table>>

\* report_v01.create_cover_page
CreateCoverPage ==
    /\ risk.pc = "summarized"
    /\ risk.levels["matplotlib cover page"] = "none"
    /\ risk' = [risk EXCEPT !.levels["matplotlib cover page"] =
                                level_by_less_than(risk.risk_percentage)]
    /\ UNCHANGED <<classifierVars, moneyVars, pipelineVars, loaderVars, fatalVars,
                   dates, matrix, deposits, aging_table>>

\* ProfessionalFactoringReport.prepare_template_data
PrepareTemplateData ==
    /\ risk.pc = "summarized"
    /\ risk.levels["WeasyPrint template data"] = "none"
    /\ risk' = [risk EXCEPT !.levels["WeasyPrint template data"] =
                                level_by_less_than(risk.risk_percentage)]
    /\ UNCHANGED <<classifierVars, moneyVars, pipelineVars, loaderVars, fatalVars,
                   dates, matrix, deposits, aging_table>>

NextRisk == CreateRiskIndicator \/ WriteExecutiveSummary \/ CreateCoverPage \/ PrepareTemplateData

SpecRisk == InitRisk /\ [][NextRisk]_vars

(***************************************************************************)
(* aggregate_monthly_deposits.  A deposits file is a sequence of rows      *)
(* [date, amount]: date a raw date cell, amount a number of cents or NaN   *)
(* (an empty cell).  deposits is [pc, bank, file], and after the call also *)
(* df, the frame the function groups, and monthly_agg, what it returns     *)
(***************************************************************************)
Banks == {"Chase", "Popular", "Wells Fargo"}

DepositDates ==
    {Mdy(1, 15, 2024), Mdy(1, 31, 2024), Mdy(2, 15, 2024), Mdy(2, 31, 2024), Mdy(13, 15, 2024),
     Mdy(1, 15, 2025), MissingDate, TextDate}

DepositAmounts == {NaN, 1000, 2550}

DepositRows == [date : DepositDates, amount : DepositAmounts]

DepositFiles(maxDeposits) == UNION {[1..n -> DepositRows] : n \in 0..maxDeposits}

\* df['date'] = pd.to_datetime(df['date'], format='%m/%d/%Y', errors='coerce')
convert_dates(frame) == [i \in DOMAIN frame |-> [frame[i] EXCEPT !.date = to_datetime(frame[i].date)]]

\* df.dropna(subset=['date'])
dropna_date(frame) == SelectSeq(frame, LAMBDA r : notna(r.date))

\* a monthly Period is its number of months since January 1970
PeriodYear(p) == 1970 + (p \div 12)
PeriodMonth(p) == (p % 12) + 1
Periods == {(y - 1970) * 12 + (m - 1) : y \in {2024, 2025}, m \in 1..12}

\* the period of the January of the year of the date
to_period_Y(t) ==
    CHOOSE p \in Periods :
        /\ PeriodMonth(p) = 1
        /\ Ordinal(1, 1, PeriodYear(p)) <= t
        /\ t <= Ordinal(12, 31, PeriodYear(p))

\* Timestamp.to_period('M')
to_period_M(t) ==
    CHOOSE p \in Periods :
        /\ Ordinal(PeriodMonth(p), 1, PeriodYear(p)) <= t
        /\ t <= Ordinal(PeriodMonth(p), DaysInMonth(PeriodMonth(p), PeriodYear(p)), PeriodYear(p))

\* df['year_month'] = df['date'].dt.to_period('M')
with_year_month(frame) ==
    [i \in DOMAIN frame |->
        [date |-> frame[i].date, amount |-> frame[i].amount, year_month |-> to_period_M(frame[i].date)]]

\* the sum of the amounts of one group; sum() skips NaN
RECURSIVE group_sum(_, _)
group_sum(frame, key) ==
    IF frame = <<>> THEN 0
    ELSE (IF Head(frame).year_month = key /\ Head(frame).amount # NaN THEN Head(frame).amount ELSE 0)
            + group_sum(Tail(frame), key)

Smallest(keys) == CHOOSE k \in keys : \A other \in keys : k <= other

\* df.groupby('year_month')['amount'].sum().reset_index(), with the bank
\* column and the renamed columns: a row for each key, the keys ascending
RECURSIVE groupby_sum(_, _, _)
groupby_sum(frame, keys, bank_name) ==
    IF keys = {} THEN <<>>
    ELSE <<[month |-> Smallest(keys), total_deposits |-> group_sum(frame, Smallest(keys)),
            bank |-> bank_name]>>
            \o groupby_sum(frame, keys \ {Smallest(keys)}, bank_name)

year_months(frame) == {frame[i].year_month : i \in DOMAIN frame}

aggregate_monthly_deposits(frame, bank_name) ==
    groupby_sum(frame, year_months(frame), bank_name)

InitDeposits ==
    /\ \E bank \in Banks, file \in DepositFiles(MaxDeposits) :
          deposits = [pc |-> "read", bank |-> bank, file |-> file, df |-> <<>>,
                      monthly_agg |-> <<>>]
    /\ IdleClassifier
    /\ IdleMoney
    /\ IdlePipeline
    /\ IdleLoader
    /\ IdleFatal
    /\ IdleDates
    /\ IdleMatrix
    /\ IdleRisk
    /\ IdleTable

AggregateMonthlyDeposits ==
    /\ deposits.pc = "read"
    /\ deposits' =
          [deposits EXCEPT
              !.pc = "aggregated",
              !.df = with_year_month(dropna_date(convert_dates(deposits.file))),
              !.monthly_agg =
                  aggregate_monthly_deposits(
                      with_year_month(dropna_date(convert_dates(deposits.file))), deposits.bank)]
    /\ UNCHANGED <<classifierVars, moneyVars, pipelineVars, loaderVars, fatalVars,
                   dates, matrix, risk, aging_table>>

NextDeposits == AggregateMonthlyDeposits

SpecDeposits == InitDeposits /\ [][NextDeposits]_vars

(***************************************************************************)
(* sort_aging_buckets on a table of its own.  aging_table is [pc, caller,  *)
(* given, once, twice]: the table given, what the function returned for    *)
(* it, and what it returned for that                                       *)
(***************************************************************************)
TableLabels == {aging_order[k] : k \in 1..Len(aging_order)} \cup {"Unknown"}

TableRows == [Aging_Bucket : TableLabels, Count : {1, 2}]

Tables(maxTableRows) == UNION {[1..n -> TableRows] : n \in 0..maxTableRows}

InitTable ==
    /\ \E rows \in Tables(MaxTableRows) :
          aging_table = [pc |-> "given", caller |-> "none", given |-> rows, once |-> <<>>,
                         twice |-> <<>>]
    /\ IdleClassifier
    /\ IdleMoney
    /\ IdlePipeline
    /\ IdleLoader
    /\ IdleFatal
    /\ IdleDates
    /\ IdleMatrix
    /\ IdleRisk
    /\ IdleDeposits

\* final_export.sort_aging_buckets(df)
SortAgingBuckets ==
    /\ aging_table.pc = "given"
    /\ aging_table' = [aging_table EXCEPT !.pc = "sorted", !.caller = "final_export",
                                          !.once = sort_aging_buckets(aging_table.given)]
    /\ UNCHANGED <<classifierVars, moneyVars, pipelineVars, loaderVars, fatalVars,
                   dates, matrix, risk, deposits>>

\* FactoringPDFReport.sort_aging_buckets(df)
ReportSortAgingBuckets ==
    /\ aging_table.pc = "given"
    /\ aging_table' = [aging_table EXCEPT !.pc = "sorted", !.caller = "FactoringPDFReport",
                                          !.once = sort_aging_buckets(aging_table.given)]
    /\ UNCHANGED <<classifierVars, moneyVars, pipelineVars, loaderVars, fatalVars,
                   dates, matrix, risk, deposits>>

\* the function applied to the table it returned
SortAgain ==
    /\ aging_table.pc = "sorted"
    /\ aging_table' = [aging_table EXCEPT !.pc = "sorted twice",
                                          !.twice = sort_aging_buckets(aging_table.once)]
    /\ UNCHANGED <<classifierVars, moneyVars, pipelineVars, loaderVars, fatalVars,
                   dates, matrix, risk, deposits>>

NextTable == SortAgingBuckets \/ ReportSortAgingBuckets \/ SortAgain

SpecTable == InitTable /\ [][NextTable]_vars

(***************************************************************************)
(* Properties                                                              *)
(***************************************************************************)
Classified == classifier \in {"cut", "create_aging_bucket"}
ModeLabels == IF invoice_type = "paid" THEN PaidLabels ELSE OutstandingLabels
LabelSet(labels) == {labels[k] : k \in 1..5}

\* C1: every integer delay gets the label of the bucket table, for both
\* classifiers and both modes: <= 0 On-time/Current, 1..30 '1-30 Days',
\* 31..60 '31-60 Days', 61..90 '61-90 Days', > 90 '90+ Days'; the label is one
\* of the five of the mode and the boundary values 0, 1, 30, 31, 60, 61, 90,
\* 91 fall where the table puts them.
C1_BucketTable ==
    Classified =>
        /\ bucket \in LabelSet(ModeLabels)
        /\ days <= 0 => bucket = (IF invoice_type = "paid" THEN "On-time" ELSE "Current")
        /\ days \in 1..30 => bucket = "1-30 Days"
        /\ days \in 31..60 => bucket = "31-60 Days"
        /\ days \in 61..90 => bucket = "61-90 Days"
        /\ days > 90 => bucket = "90+ Days"
        /\ days \in {1, 30} => bucket = ModeLabels[2]
        /\ days \in {31, 60} => bucket = ModeLabels[3]
        /\ days \in {61, 90} => bucket = ModeLabels[4]
        /\ days = 0 => bucket = ModeLabels[1]
        /\ days = 91 => bucket = ModeLabels[5]

C1_Witness == classifier = "cut" /\ invoice_type = "outstanding" /\ days = 30 /\ bucket = "1-30 Days"

\* calendar arithmetic by counting: the calendar dates from one date up to,
\* not including, a later one
Earlier(a, b) ==
    \/ a.y < b.y
    \/ a.y = b.y /\ a.m < b.m
    \/ a.y = b.y /\ a.m = b.m /\ a.d < b.d

ValidDate(x) == x.kind = "mdy" /\ x.m \in 1..12 /\ x.d \in 1..DaysInMonth(x.m, x.y)

StepsTo(a, b) ==
    Cardinality({x \in [kind : {"mdy"}, m : 1..12, d : 1..31, y : a.y..b.y] :
                    ValidDate(x) /\ ~Earlier(x, a) /\ Earlier(x, b)})

SnapshotDate == Mdy(6, 23, 2025)

\* the counts between the calendar dates of the files, counted once
FileDates ==
    {x \in DueValues \cup LPDValues \cup {SnapshotDate} \cup {r.Due : r \in SpecialRows} : ValidDate(x)}

DayCount == [a \in FileDates, b \in FileDates |-> StepsTo(a, b)]

Steps(a, b) ==
    IF a \in FileDates /\ b \in FileDates THEN DayCount[a, b] ELSE StepsTo(a, b)

\* whole days from `from` to `to`, positive when `to` is the later date
SignedDays(from, to) == IF Earlier(to, from) THEN 0 - Steps(to, from) ELSE Steps(from, to)

Rows(frame) == {frame[i] : i \in 1..Len(frame)}

\* C2: with all its dates present an invoice's aging delay is the signed
\* number of whole days from Due Date to Last Payment Date (paid mode) or to
\* the snapshot date (outstanding mode), positive meaning late; due
\* 01/01/2025 paid 01/15/2025 gives 14 and '1-30 Days', due 01/01/2025 unpaid
\* at snapshot 06/23/2025 gives 173 and '90+ Days'.
C2_AgingDelay ==
    /\ corrected.prepared =>
        /\ \A r \in Rows(corrected.df_paid_invoices) :
              ValidDate(df[r.idx].Due) =>
                 /\ r.Aging_Delay = SignedDays(df[r.idx].Due, df[r.idx].LPD)
                 /\ (r.Aging_Delay > 0) = Earlier(df[r.idx].Due, df[r.idx].LPD)
                 /\ (df[r.idx].Due = Mdy(1, 1, 2025) /\ df[r.idx].LPD = Mdy(1, 15, 2025))
                       => (r.Aging_Delay = 14 /\ r.Aging_Bucket = "1-30 Days")
        /\ \A r \in Rows(corrected.df_outstanding_invoices) :
              ValidDate(df[r.idx].Due) =>
                 /\ r.Aging_Delay = SignedDays(df[r.idx].Due, SnapshotDate)
                 /\ df[r.idx].Due = Mdy(1, 1, 2025)
                       => (r.Aging_Delay = 173 /\ r.Aging_Bucket = "90+ Days")
    /\ final.done =>
        /\ \A r \in Rows(final.df_paid_invoices) :
              (ValidDate(df[r.idx].Due) /\ ValidDate(df[r.idx].LPD)) =>
                 r.Aging_Delay = SignedDays(df[r.idx].Due, df[r.idx].LPD)
        /\ \A r \in Rows(final.df_outstanding_invoices) :
              ValidDate(df[r.idx].Due) =>
                 r.Aging_Delay = SignedDays(df[r.idx].Due, SnapshotDate)

C2_Witness ==
    /\ corrected.prepared
    /\ \E r \in Rows(corrected.df_paid_invoices) : r.Aging_Delay = 14 /\ r.Aging_Bucket = "1-30 Days"
    /\ \E r \in Rows(corrected.df_outstanding_invoices) : r.Aging_Delay = 173 /\ r.Aging_Bucket = "90+ Days"

\* the rows that calculate_aging_correctly / prepare_data aged without the
\* reference dates the mode needs
AgedFromNull(frame, inv_type) ==
    {r \in Rows(frame) :
        \/ ~ValidDate(df[r.idx].Due)
        \/ inv_type = "paid" /\ ~ValidDate(df[r.idx].LPD)}

Unaged(r) == r.Aging_Delay = NaN /\ r.Aging_Bucket = "NaN"

\* C3: an invoice whose Due Date (or, in paid mode, Last Payment Date) is
\* missing or unparseable is never aged: it gets no delay, in particular not
\* delay 0, and no aging bucket.
C3_NeverAgedFromNull ==
    /\ corrected.prepared =>
        /\ \A r \in AgedFromNull(corrected.df_paid_invoices, "paid") : Unaged(r)
        /\ \A r \in AgedFromNull(corrected.df_outstanding_invoices, "outstanding") : Unaged(r)
    /\ final.done =>
        /\ \A r \in AgedFromNull(final.df_paid_invoices, "paid") : Unaged(r)
        /\ \A r \in AgedFromNull(final.df_outstanding_invoices, "outstanding") : Unaged(r)

InvoiceIdx == {i \in 1..Len(df) : df[i].Type = "Invoice"}
Occurrences(frame, i) == Cardinality({k \in 1..Len(frame) : frame[k].idx = i})
RowOf(frame, i) == frame[CHOOSE k \in 1..Len(frame) : frame[k].idx = i]

ExactlyOneStatus(i) ==
    Occurrences(corrected.df_paid_invoices, i) + Occurrences(corrected.df_outstanding_invoices, i) = 1

ClassifiedRow(i) ==
    IF Occurrences(corrected.df_paid_invoices, i) = 1
    THEN RowOf(corrected.df_paid_invoices, i)
    ELSE RowOf(corrected.df_outstanding_invoices, i)

StatusLabels(i) ==
    IF Occurrences(corrected.df_paid_invoices, i) = 1 THEN PaidLabels ELSE OutstandingLabels

\* C4 as stated: after CorrectedFactoringAnalyzer.prepare_data every invoice
\* has exactly one payment status and exactly one aging bucket, whatever
\* dates are present or missing.
C4_OneStatusOneBucket ==
    corrected.prepared =>
        \A i \in InvoiceIdx :
            /\ ExactlyOneStatus(i)
            /\ ClassifiedRow(i).Aging_Bucket \in LabelSet(StatusLabels(i))

\* C4 amended: every invoice has exactly one payment status; it has exactly
\* one aging bucket, a label of its status, when its Due Date parses, and no
\* aging bucket when its Due Date is missing or unparseable.
C4_OneStatusBucketIffDue ==
    corrected.prepared =>
        \A i \in InvoiceIdx :
            /\ ExactlyOneStatus(i)
            /\ ValidDate(df[i].Due) => ClassifiedRow(i).Aging_Bucket \in LabelSet(StatusLabels(i))
            /\ ~ValidDate(df[i].Due) => ClassifiedRow(i).Aging_Bucket = "NaN"

C4_Witness ==
    /\ corrected.prepared
    /\ \E r \in Rows(corrected.df_paid_invoices) : r.Aging_Bucket = "On-time"
    /\ \E r \in Rows(corrected.df_outstanding_invoices) : r.Due = NaT /\ r.Aging_Bucket = "NaN"

\* no table, return value or printed line of the scripts carries a count of
\* the records left out of the aging tables
ReportedUnclassifiable == 0

Sum5(c) == c[1] + c[2] + c[3] + c[4] + c[5]

\* C5: for each population the five bucket counts plus the reported
\* unclassifiable count equal the population size, an invoice with an
\* unparseable Due Date being counted as unclassifiable, not dropped and not
\* merged into a bucket.
C5_ExcludedAreCounted ==
    /\ summary.outstanding.status = "table" =>
          Sum5(summary.outstanding.Invoice_Count) + ReportedUnclassifiable = summary.outstanding.population
    /\ summary.paid.status = "table" =>
          Sum5(summary.paid.Invoice_Count) + ReportedUnclassifiable = summary.paid.population
    /\ final.done =>
          \A r \in AgedFromNull(final.df_outstanding_invoices, "outstanding") :
              r.Aging_Bucket \notin LabelSet(OutstandingLabels)

\* C6: two runs of the pipeline on the same file give identical delays,
\* buckets and tables, whatever the wall-clock times of the runs.
C6_RunsAgree == Len(history) = 2 => history[1] = history[2]

Normalized == normalizer \in {"FactoringAnalyzer", "CorrectedFactoringAnalyzer"}

\* C7: a string of the accepted monetary grammar is normalized to the value
\* it denotes: '$1,234.56' to 1234.56, '(500.00)' to -500.0, '(1,234.50)' to
\* -1234.50, '$0' to 0.0.
C7_GrammarValue ==
    (Normalized /\ raw.kind = "str" /\ InGrammar(raw.s)) =>
        /\ EqualsRatio(value, ImpliedNumerator(raw.s), ImpliedDenominator(raw.s))
        /\ raw.s = <<"$", "1", ",", "2", "3", "4", ".", "5", "6">> => EqualsRatio(value, 123456, 100)
        /\ raw.s = <<"(", "5", "0", "0", ".", "0", "0", ")">> => EqualsRatio(value, -500, 1)
        /\ raw.s = <<"(", "1", ",", "2", "3", "4", ".", "5", "0", ")">> => EqualsRatio(value, -123450, 100)
        /\ raw.s = <<"$", "0">> => EqualsRatio(value, 0, 1)

C7_Witness ==
    /\ normalizer = "FactoringAnalyzer"
    /\ raw = Str(<<"$", "1", ",", "2", "3", "4", ".", "5", "6">>)
    /\ value = [kind |-> "fin", num |-> 123456, exp |-> -2]

\* C8: a string outside the accepted monetary grammar is normalized to
\* exactly 0.0, never to a negative or other non-zero value.
C8_NonGrammarIsZero ==
    (Normalized /\ raw.kind = "str" /\ ~InGrammar(raw.s)) => value = Zero

\* C9: the normalizer returns a finite number for every input: never NaN,
\* never an infinity.
C9_AlwaysFinite == Normalized => value.kind = "fin"

\* the rows of df_full whose Type is neither 'Invoice' nor 'Credit Memo'
Residual(full) == SelectSeq(full, LAMBDA r : r.Type \notin {"Invoice", "Credit Memo"})

Partitioned(obj) ==
    /\ \A r \in Rows(obj.df_invoice) : df[r.idx].Type = "Invoice"
    /\ \A r \in Rows(obj.df_credit_memo) : df[r.idx].Type = "Credit Memo"
    /\ \A i \in 1..Len(df) :
          /\ Occurrences(obj.df_invoice, i) + Occurrences(obj.df_credit_memo, i)
                + Occurrences(Residual(obj.df_full), i) = 1
          /\ Occurrences(obj.df_full, i) = 1
          /\ RowOf(obj.df_full, i).Type = df[i].Type
    /\ Len(obj.df_full) = Len(df)

\* C10: after prepare_data every loaded record is in exactly one of the
\* groups Invoice (Type exactly 'Invoice'), Credit Memo (Type exactly 'Credit
\* Memo') and residual (any other Type); the groups hold each record once and
\* df_full retains the records of unknown type.
C10_TypePartition ==
    /\ corrected.prepared => Partitioned(corrected)
    /\ analyzer.prepared => Partitioned(analyzer)

C10_Witness ==
    /\ analyzer.prepared
    /\ Len(analyzer.df_invoice) = 1
    /\ Len(analyzer.df_credit_memo) = 0
    /\ Len(analyzer.df_full) = 2
    /\ \E r \in Rows(analyzer.df_full) : r.Type = "Payment"

\* C11: in CorrectedFactoringAnalyzer.prepare_data an invoice is Paid iff its
\* parsed Last Payment Date is present and Outstanding otherwise;
\* df_paid_invoices and df_outstanding_invoices are disjoint and together hold
\* every invoice of df_invoice exactly once, and nothing else.
C11_PaidIffPaymentDate ==
    corrected.prepared =>
        /\ \A i \in InvoiceIdx :
              /\ Occurrences(corrected.df_paid_invoices, i) = (IF ValidDate(df[i].LPD) THEN 1 ELSE 0)
              /\ Occurrences(corrected.df_outstanding_invoices, i) = (IF ValidDate(df[i].LPD) THEN 0 ELSE 1)
              /\ Occurrences(corrected.df_invoice, i) = 1
        /\ \A r \in Rows(corrected.df_paid_invoices) \cup Rows(corrected.df_outstanding_invoices) :
              r.idx \in InvoiceIdx
        /\ Len(corrected.df_paid_invoices) + Len(corrected.df_outstanding_invoices)
              = Len(corrected.df_invoice)

C11_Witness ==
    /\ corrected.prepared
    /\ \E r \in Rows(corrected.df_paid_invoices) : r.Due = NaT
    /\ \E r \in Rows(corrected.df_outstanding_invoices) : df[r.idx].LPD = Mdy(2, 30, 2025)

\* C12: the two paid/outstanding signals are equivalent: for every invoice
\* the date-presence splitter of CorrectedFactoringAnalyzer (Paid iff Last
\* Payment Date present) and the zero-due splitter of final_export (Paid iff
\* Amt. Due == 0) assign the same payment status.
C12_SignalsAgree ==
    final.done =>
        \A i \in InvoiceIdx :
            /\ (Occurrences(final.df_paid_invoices, i) = 1)
                  <=> (Occurrences(CorrectedPrepare(df).df_paid_invoices, i) = 1)
            /\ (Occurrences(final.df_outstanding_invoices, i) = 1)
                  <=> (Occurrences(CorrectedPrepare(df).df_outstanding_invoices, i) = 1)

\* the place of a label in the severity order; On-time and Current share the
\* first place
SeverityRank(label) ==
    CASE label \in {"On-time", "Current"} -> 1
      [] label = "1-30 Days" -> 2
      [] label = "31-60 Days" -> 3
      [] label = "61-90 Days" -> 4
      [] label = "90+ Days" -> 5
      [] OTHER -> 6

InSeverityOrder(labels) ==
    \A i, j \in 1..Len(labels) : i < j => SeverityRank(labels[i]) < SeverityRank(labels[j])

BucketColumn(table) == [i \in 1..Len(table) |-> table[i].Aging_Bucket]

SheetsInSeverityOrder(sheets) ==
    sheets.written =>
        /\ InSeverityOrder(BucketColumn(sheets.Count_by_Aging))
        /\ InSeverityOrder(BucketColumn(sheets.Percentages))
        /\ InSeverityOrder(sheets.Customer_Matrix)

\* C13: wherever aging buckets are sorted or enumerated they appear in the
\* severity order On-time/Current, 1-30 Days, 31-60 Days, 61-90 Days, 90+ Days:
\* the bucket tables that sort_aging_buckets returns, whatever order grouping
\* on the string labels produced, and the bucket columns of the customer
\* aging matrix.
C13_SeverityOrder ==
    final.done => (SheetsInSeverityOrder(final.Paid) /\ SheetsInSeverityOrder(final.Outstanding))

\* a percentage total that is 100 up to the rounding of the five percentages
\* to two decimals
Near100(v) == v.kind = "fin" /\ v.exp >= -2 /\ Abs(IntAt(v, -2) - 10000) <= 5

CountPercentages(table) == [i \in 1..Len(table) |-> table[i].Count_Percentage]

\* C14: for each population taken separately and non-empty, the count
\* percentages of its aging-bucket table sum to 100: the bucket counts add up
\* to the population size used as the denominator.
C14_PercentagesSumTo100 ==
    /\ summary.paid.status = "table" =>
          /\ Sum5(summary.paid.Invoice_Count) = summary.paid.population
          /\ Near100(FloatSum(summary.paid.Percentage))
    /\ summary.outstanding.status = "table" =>
          /\ Sum5(summary.outstanding.Invoice_Count) = summary.outstanding.population
          /\ Near100(FloatSum(summary.outstanding.Percentage))
    /\ final.done =>
          /\ final.Paid.written => Near100(FloatSum(CountPercentages(final.Paid.Percentages)))
          /\ final.Outstanding.written =>
                Near100(FloatSum(CountPercentages(final.Outstanding.Percentages)))

\* the invoices of the loaded file that each splitter takes for paid and for
\* outstanding, and the loaded file without its other invoices
DatedInvoices(loaded) == SelectSeq(loaded, LAMBDA r : r.Type # "Invoice" \/ ValidDate(r.LPD))
UndatedInvoices(loaded) == SelectSeq(loaded, LAMBDA r : r.Type # "Invoice" \/ ~ValidDate(r.LPD))
ZeroDueInvoices(loaded) ==
    SelectSeq(loaded, LAMBDA r : r.Type # "Invoice" \/ IsZero(clean_monetary(r.AmtDue)))
PositiveDueInvoices(loaded) ==
    SelectSeq(loaded, LAMBDA r : r.Type # "Invoice" \/ IsPositive(clean_monetary(r.AmtDue)))

NumberOf(loaded) == Cardinality({i \in 1..Len(loaded) : loaded[i].Type = "Invoice"})

\* C15: percentages never mix populations: every percentage of a paid table
\* is the group's count or amount over the total of the paid population only,
\* and likewise for outstanding, so the table of one population is the table
\* computed from the file without the invoices of the other population.
C15_NoCrossContamination ==
    /\ summary.paid.status = "table" =>
          /\ summary.paid = paid_invoices_aging_analysis(CorrectedPrepare(DatedInvoices(df)))
          /\ \A k \in 1..5 :
                summary.paid.Percentage[k]
                    = PercentOf(summary.paid.Invoice_Count[k], NumberOf(DatedInvoices(df)))
    /\ summary.outstanding.status = "table" =>
          /\ summary.outstanding
                = outstanding_invoices_aging_analysis(CorrectedPrepare(UndatedInvoices(df)))
          /\ \A k \in 1..5 :
                summary.outstanding.Percentage[k]
                    = PercentOf(summary.outstanding.Invoice_Count[k], NumberOf(UndatedInvoices(df)))
    /\ final.done =>
          /\ final.Paid = FinalExport(FactoringPrepare(ZeroDueInvoices(df), clock)).Paid
          /\ final.Outstanding
                = FinalExport(FactoringPrepare(PositiveDueInvoices(df), clock)).Outstanding

C15_Witness ==
    /\ summary.paid.status = "table"
    /\ summary.paid.population = 1
    /\ Len(corrected.df_outstanding_invoices) = 1
    /\ summary.paid.Percentage[2] = Canon(100, 0)

C17_RawKept ==
    /\ analyzer.prepared => analyzer.df_full = df
    /\ validation.done => validation.raw_data = df

\* C19: in final_export the Paid set (Amt. Due == 0) and the Outstanding set
\* (Amt. Due > 0) are disjoint and together contain every invoice, for every
\* normalized amount due, negative ones included: no invoice is lost, and the
\* Summary sheet's Paid Invoices count plus Outstanding Invoices count equals
\* its Invoices count.
C19_ZeroDuePartition ==
    final.done =>
        /\ \A i \in InvoiceIdx :
              Occurrences(final.df_paid_invoices, i)
                  + Occurrences(final.df_outstanding_invoices, i) = 1
        /\ final.Summary.Paid_Invoices + final.Summary.Outstanding_Invoices = final.Summary.Invoices

FatalInput(inp) == inp.file # "readable" \/ inp.columns # RequiredColumns

\* C18: when the input file cannot be read or a required column is missing,
\* the run aborts with a diagnostic and nothing downstream is computed: no
\* aggregate table, executive summary, worksheet or report is produced
\* (CorrectedFactoringAnalyzer construction followed by run_full_analysis,
\* export_aging_buckets, generate_professional_report.main).
C18_FatalInputAborts ==
    FatalInput(input) =>
        /\ run.produced = {}
        /\ run.pc = "done" => (run.aborted /\ run.diagnostics # {})

\* the encodings of the three reads, in the order of the code
EncodingOrder == <<given, "utf-8", "default">>

\* C20: the loader reads with the given encoding first, with utf-8 only after
\* a decoding error of the first read, with the pandas default only after a
\* failure of the utf-8 read; no read follows a success, the frame held and
\* used is the one of the first (hence last) successful read, and a first
\* read that fails with another error is followed by no read and no data
\* (FactoringAnalyzer.__init__, quick_test).
C20_EncodingOrder ==
    /\ Len(attempts) <= 3
    /\ \A i \in 1..Len(attempts) : attempts[i].encoding = EncodingOrder[i]
    /\ \A i \in 1..(Len(attempts) - 1) : attempts[i].error # "none"
    /\ Len(attempts) >= 2 => attempts[1].error = "UnicodeDecodeError"
    /\ loader.df # "none" =>
          /\ attempts # <<>>
          /\ attempts[Len(attempts)].error = "none"
          /\ loader.df = attempts[Len(attempts)].encoding
    /\ loader.used # "none" => loader.used = loader.df
    /\ loader.pc = "done" =>
          /\ attempts # <<>>
          /\ attempts[1].error = "UnicodeDecodeError" => Len(attempts) >= 2
          /\ (Len(attempts) >= 2 /\ attempts[2].error # "none") => Len(attempts) = 3
          /\ attempts[Len(attempts)].error = "none" <=> loader.used # "none"
    /\ (attempts # <<>> /\ attempts[1].error = "OtherError") =>
          (Len(attempts) = 1 /\ loader.df = "none" /\ loader.pc = "done")

\* the first two reads failed, the read with the pandas default succeeded and
\* its frame was used
C20_Witness ==
    /\ loader.pc = "done"
    /\ Len(attempts) = 3
    /\ attempts[1].error = "UnicodeDecodeError"
    /\ attempts[3].error = "none"
    /\ loader.used = "default"

\* the Timestamp of the calendar date of a cell, by counting days from the
\* snapshot date
CalendarDate(x) == dataset_date - SignedDays(x, SnapshotDate)

\* C21: a date cell that is empty or no valid MM/DD/YYYY string is converted
\* to a missing value, a valid MM/DD/YYYY string to that calendar date, and a
\* Last Payment Date that is not valid counts as no payment date
\* (CorrectedFactoringAnalyzer.prepare_data, FactoringAnalyzer.prepare_data
\* followed by calculate_aging_correctly).
C21_DatesNormalized ==
    dates.by # "none" =>
        /\ ValidDate(dates.cell) => dates.parsed = CalendarDate(dates.cell)
        /\ ~ValidDate(dates.cell) => dates.parsed = NaT
        /\ dates.by = "CorrectedFactoringAnalyzer" => (dates.has_payment_date = ValidDate(dates.cell))

\* the dollars a customer has in a bucket, and in all buckets, counted row by
\* row over the population
RECURSIVE CustomerAmount(_, _, _, _)
CustomerAmount(frame, n, customer, buckets) ==
    IF n = 0 THEN 0
    ELSE CustomerAmount(frame, n - 1, customer, buckets)
            + (IF frame[n].Applied_to = customer /\ frame[n].Aging_Bucket \in buckets
               THEN frame[n].value ELSE 0)

\* a float with one decimal, in tenths
Tenths(v) == IntAt(v, -1)

RECURSIVE SumTenths(_)
SumTenths(cells) == IF cells = <<>> THEN 0 ELSE Tenths(Head(cells)) + SumTenths(Tail(cells))

\* the row of one customer: every percentage is the bucket amount over the
\* customer's total times 100, to one decimal, and they sum to 100 up to
\* that rounding; all are 0 when the total is 0
MatrixRowOK(customer) ==
    LET total == CustomerAmount(matrix.frame, Len(matrix.frame), customer, MatrixBuckets)
        row == matrix.pct[customer]
    IN  /\ \A k \in 1..Len(row) : row[k].kind = "fin"
        /\ total # 0 =>
              /\ \A k \in 1..Len(row) :
                    2 * Abs(Tenths(row[k]) * total
                            - 1000 * CustomerAmount(matrix.frame, Len(matrix.frame), customer,
                                                    {matrix.columns[k]}))
                        <= Abs(total)
              /\ 2 * Abs(SumTenths(row) - 1000) <= Len(row)
        /\ total = 0 => \A k \in 1..Len(row) : row[k] = Zero

\* C22: in the customer aging matrix every row percentage is the customer's
\* bucket amount divided by the customer's total times 100, the percentages of
\* a row sum to 100 when the total is not zero, and are all 0, never NaN or
\* infinite, when it is zero (test_table_structure,
\* FactoringPDFReport.create_paid_invoices_section and
\* create_outstanding_invoices_section).
C22_MatrixRowPercentages ==
    matrix.pc = "done" =>
        \A customer \in {matrix.frame[i].Applied_to : i \in 1..Len(matrix.frame)} :
            MatrixRowOK(customer)

\* C23: the two monetary normalizers agree: on every raw cell the value of
\* FactoringAnalyzer.prepare_data is the value of
\* CorrectedFactoringAnalyzer.prepare_data.
C23_NormalizersAgree ==
    normalizer # "none" =>
        /\ value = clean_monetary(raw)
        /\ value = clean_monetary_corrected(raw)

\* C24: once executive_summary has run, the outstanding invoices it counts as
\* high-risk (Aging_Delay > 90) are the outstanding invoices of the bucket
\* '90+ Days', and the paid invoices it counts as on-time (Aging_Delay <= 0)
\* are the paid invoices of the bucket 'On-time'
\* (CorrectedFactoringAnalyzer.prepare_data and executive_summary).
C24_SummaryAgreesWithBuckets ==
    summary.executive.status = "dict" =>
        /\ overdue_90_plus(corrected.df_outstanding_invoices)
              = bucket_rows(corrected.df_outstanding_invoices, "90+ Days")
        /\ on_time(corrected.df_paid_invoices) = bucket_rows(corrected.df_paid_invoices, "On-time")

\* the summary of a file with an outstanding invoice exactly 90 days overdue
\* and a paid invoice paid on its due date
C24_Witness ==
    /\ summary.executive.status = "dict"
    /\ \E i \in 1..Len(corrected.df_outstanding_invoices) :
          corrected.df_outstanding_invoices[i].Aging_Delay = 90
    /\ \E i \in 1..Len(corrected.df_paid_invoices) :
          corrected.df_paid_invoices[i].Aging_Delay = 0

\* a summary scalar that is a number: neither NaN nor an infinity
Defined(x) == x.kind = "fin"

\* the scalars of CorrectedFactoringAnalyzer.executive_summary
CorrectedSummaryDefined ==
    summary.executive.status = "dict" =>
        /\ Defined(summary.executive.total_outstanding)
        /\ Defined(summary.executive.collection_rate)
        /\ Defined(summary.executive.avg_payment_delay)
        /\ Defined(summary.executive.risk_percentage)
        /\ ~IsPositive(FloatSum(AmountColumn(corrected.df_invoice)))
              => summary.executive.collection_rate = ZeroRate
        /\ ~IsPositive(summary.executive.total_outstanding)
              => summary.executive.risk_percentage = ZeroRate
        /\ Len(corrected.df_paid_invoices) = 0 => summary.executive.avg_payment_delay = ZeroRate

\* the scalars of FactoringAnalyzer.executive_summary
FactoringSummaryDefined ==
    \A i \in 1..Len(history) :
        /\ Defined(history[i].returned.total_outstanding)
        /\ Defined(history[i].returned.avg_days_past_due)
        /\ Defined(history[i].returned.collection_rate)
        /\ Defined(history[i].returned.risk_percentage)
        /\ ~IsPositive(FloatSum(AmountColumn(analyzer.df)))
              => history[i].returned.collection_rate = ZeroRate
        /\ ~IsPositive(history[i].returned.total_outstanding)
              => history[i].returned.risk_percentage = ZeroRate

\* C25: executive_summary of either analyzer returns a number for every
\* summary scalar on every prepared dataset: collection_rate and
\* risk_percentage are 0 when their denominator is not positive, and
\* avg_payment_delay is 0 when there is no paid invoice.
C25_SummaryDefined ==
    CorrectedSummaryDefined /\ FactoringSummaryDefined

RECURSIVE SumCounts(_)
SumCounts(counts) == IF counts = <<>> THEN 0 ELSE Head(counts) + SumCounts(Tail(counts))

\* the Percentage_of_Total values of the bucket rows, summed in hundredths
RECURSIVE SumHundredths(_)
SumHundredths(rows) ==
    IF rows = <<>> THEN 0
    ELSE IntAt(Head(rows).Percentage_of_Total, -2) + SumHundredths(Tail(rows))

\* C26: in export_aging_buckets the buckets account for every invoice: the
\* counts of aging_breakdown sum to total_invoices, the TOTAL row of the
\* Summary sheet has Invoice_Count total_invoices, and the Percentage_of_Total
\* values of the buckets sum to the 100.0 of the TOTAL row (up to their
\* rounding to two decimals), also when a Due Date is missing or unparseable.
C26_BucketsAccountForAll ==
    (exported.done /\ exported.result_summary.status = "dict") =>
        /\ SumCounts(exported.result_summary.aging_breakdown)
              = exported.result_summary.total_invoices
        /\ exported.Summary.TOTAL.Invoice_Count = exported.result_summary.total_invoices
        /\ 2 * Abs(SumHundredths(exported.Summary.rows) - 10000) <= Len(exported.Summary.rows)

\* C27: every place that turns risk_percentage into a risk level gives the
\* same level for the same value, exactly 10 and exactly 20 included: the
\* levels written so far by the ReportLab risk indicator, the ReportLab
\* executive summary, the matplotlib cover page and the WeasyPrint template
\* data are equal.
C27_RiskLevelsAgree ==
    \A a, b \in RiskPlaces :
        (risk.levels[a] # "none" /\ risk.levels[b] # "none") => risk.levels[a] = risk.levels[b]

MainCalls == [i \in DOMAIN run.calls |-> run.calls[i].call]

AnalysisSucceeded ==
    /\ Len(run.calls) >= 2
    /\ run.calls[1] = [call |-> "setup_environment", returned |-> "True"]
    /\ run.calls[2] = [call |-> "run_factoring_analysis", returned |-> "analyzer, results"]

\* C28: generate_professional_report.main produces no report, and attempts
\* none, unless setup_environment returned True and run_factoring_analysis
\* then returned an analyzer and results; when both succeeded it calls
\* generate_original_report and then generate_professional_report, the second
\* also after the first returned None, and it ends only after both calls.
C28_ReportsAfterSetupAndAnalysis ==
    run.entry = "generate_professional_report" =>
        /\ (run.produced \cap {"original report", "professional report"} # {}) => AnalysisSucceeded
        /\ \A i \in DOMAIN run.calls :
              run.calls[i].call \in {"generate_original_report", "generate_professional_report"}
                  => AnalysisSucceeded
        /\ AnalysisSucceeded =>
              /\ run.pc \in {"reports", "professional", "done"}
              /\ run.pc = "reports" => Len(run.calls) = 2
              /\ run.pc = "professional" =>
                    /\ Len(run.calls) = 3
                    /\ MainCalls[3] = "generate_original_report"
              /\ run.pc = "done" =>
                    /\ Len(run.calls) = 4
                    /\ MainCalls[3] = "generate_original_report"
                    /\ MainCalls[4] = "generate_professional_report"

C28_Witness ==
    /\ run.entry = "generate_professional_report"
    /\ run.pc = "done"
    /\ AnalysisSucceeded
    /\ Len(run.calls) = 4
    /\ run.calls[3] = [call |-> "generate_original_report", returned |-> "None"]
    /\ run.calls[4] = [call |-> "generate_professional_report", returned |-> "report_path"]
    /\ "professional report" \in run.produced

ParsesAsMDY(r) == ValidDate(r.date)

RECURSIVE SumAmounts(_)
SumAmounts(rows) ==
    IF rows = <<>> THEN 0
    ELSE (IF Head(rows).amount = NaN THEN 0 ELSE Head(rows).amount) + SumAmounts(Tail(rows))

RECURSIVE SumTotals(_)
SumTotals(agg) == IF agg = <<>> THEN 0 ELSE Head(agg).total_deposits + SumTotals(Tail(agg))

MonthsOf(r) ==
    {j \in DOMAIN deposits.monthly_agg : deposits.monthly_agg[j].month = r.year_month}

\* C29: aggregate_monthly_deposits drops exactly the rows whose date does not
\* parse as MM/DD/YYYY (the rows it groups are the rows of the file with a
\* calendar date, in order, with their amounts), every remaining row is in
\* exactly one month of the result, the calendar month of its date, every
\* month of the result has a row, and the monthly totals sum to the total
\* amount of the remaining rows.
C29_MonthlyDepositsPartition ==
    deposits.pc = "aggregated" =>
        LET kept == SelectSeq(deposits.file, ParsesAsMDY)
            grouped == deposits.df
        IN  /\ Len(grouped) = Len(kept)
            /\ \A i \in DOMAIN grouped :
                  /\ grouped[i].amount = kept[i].amount
                  /\ grouped[i].date = Ordinal(kept[i].date.m, kept[i].date.d, kept[i].date.y)
                  /\ grouped[i].year_month = (kept[i].date.y - 1970) * 12 + (kept[i].date.m - 1)
                  /\ Cardinality(MonthsOf(grouped[i])) = 1
            /\ \A j \in DOMAIN deposits.monthly_agg :
                  \E i \in DOMAIN grouped : grouped[i].year_month = deposits.monthly_agg[j].month
            /\ SumTotals(deposits.monthly_agg) = SumAmounts(kept)

C29_Witness ==
    /\ deposits.pc = "aggregated"
    /\ Len(deposits.file) = 3
    /\ Len(deposits.df) = 2
    /\ Len(deposits.monthly_agg) = 2
    /\ \A i \in DOMAIN deposits.df : deposits.df[i].amount # NaN

TimesIn(row, rows) == Cardinality({i \in DOMAIN rows : rows[i] = row})

KnownLabels == \A i \in DOMAIN aging_table.given :
                  \E k \in 1..Len(aging_order) : aging_table.given[i].Aging_Bucket = aging_order[k]

\* C30: sort_aging_buckets only reorders: for a table whose labels are all
\* among the six of aging_order the returned table has as many rows as the
\* given one and every row (label and value) as often as the given one, so
\* the labels are the same strings; and the function applied to the table it
\* returned returns that table.
C30_SortOnlyReorders ==
    KnownLabels =>
        /\ aging_table.pc \in {"sorted", "sorted twice"} =>
              /\ Len(aging_table.once) = Len(aging_table.given)
              /\ \A row \in TableRows :
                    TimesIn(row, aging_table.once) = TimesIn(row, aging_table.given)
        /\ aging_table.pc = "sorted twice" => aging_table.twice = aging_table.once

C30_Witness ==
    /\ KnownLabels
    /\ aging_table.pc = "sorted twice"
    /\ Len(aging_table.given) = 3
    /\ aging_table.once # aging_table.given
    /\ aging_table.given[1].Aging_Bucket = aging_table.given[3].Aging_Bucket
    /\ aging_table.given[1].Count # aging_table.given[3].Count

====
